---------------------------- MODULE Spec2Model ----------------------------
(***************************************************************************)
(* A model of the numeric core of spike-bender (src/main/audio.cpp): the   *)
(* zero-crossing region finder find_peaks, the median statistic, the       *)
(* sliding-window estimators and the normalizer.                           *)
(*                                                                         *)
(* Every routine is a state machine of its own, held in one record-valued  *)
(* variable whose fields carry the names of the routine's locals.  Each    *)
(* routine has its own specification (SpecPeaks, ...): its Init draws the  *)
(* call's arguments from small sets and its actions are the steps of the   *)
(* routine's loops.                                                        *)
(***************************************************************************)
EXTENDS Integers, Sequences, FiniteSets, TLC

VARIABLES
    fp,     \* find_peaks: arguments, locals and the destination list
    med,    \* median_value: the list, the sorted view and the result
    est,    \* estimate_rms and its siblings: arguments, locals, destination
    nrm,    \* normalize: arguments, locals and the buffer on entry
    bin,    \* calc_deviation, calc_gain_adjust, apply_gain, adjust_gain
    sm,     \* smash_amplitude: arguments, locals and the destination
    sp,     \* one channel's multiplier walk of smash_amplitude (pass 3)
    cl,     \* parse_cmdline: argv, the option hash, cfg and the status
    env,    \* estimate_envelope: arguments, locals and the destination
    drv     \* main: cfg, the Samples in, rms and out, rms_avg and the status

vars == <<fp, med, est, nrm, bin, sm, sp, cl, env, drv>>

(***************************************************************************)
(* Small helpers.                                                          *)
(***************************************************************************)
Abs(x) == IF x < 0 THEN -x ELSE x

Max2(a, b) == IF a < b THEN b ELSE a

Min2(a, b) == IF a < b THEN a ELSE b

RECURSIVE Pow2(_)
Pow2(n) == IF n = 0 THEN 1 ELSE 2 * Pow2(n - 1)

\* All sequences over S of length lo..hi.
SeqsOf(S, lo, hi) == UNION {[1..n -> S] : n \in lo..hi}

\* The value of the variable of a routine that is not being run.
Idle == [pc |-> "idle"]

\* The variables a routine leaves alone, and their value while it runs.
NotFp == <<med, est, nrm, bin, sm, sp, cl, env, drv>>

IdleNotFp ==
    med = Idle /\ est = Idle /\ nrm = Idle /\ bin = Idle /\ sm = Idle
    /\ sp = Idle /\ cl = Idle /\ env = Idle /\ drv = Idle

NotMed == <<fp, est, nrm, bin, sm, sp, cl, env, drv>>

IdleNotMed ==
    fp = Idle /\ est = Idle /\ nrm = Idle /\ bin = Idle /\ sm = Idle
    /\ sp = Idle /\ cl = Idle /\ env = Idle /\ drv = Idle

NotEst == <<fp, med, nrm, bin, sm, sp, cl, env, drv>>

IdleNotEst ==
    fp = Idle /\ med = Idle /\ nrm = Idle /\ bin = Idle /\ sm = Idle
    /\ sp = Idle /\ cl = Idle /\ env = Idle /\ drv = Idle

NotNrm == <<fp, med, est, bin, sm, sp, cl, env, drv>>

IdleNotNrm ==
    fp = Idle /\ med = Idle /\ est = Idle /\ bin = Idle /\ sm = Idle
    /\ sp = Idle /\ cl = Idle /\ env = Idle /\ drv = Idle

NotBin == <<fp, med, est, nrm, sm, sp, cl, env, drv>>

IdleNotBin ==
    fp = Idle /\ med = Idle /\ est = Idle /\ nrm = Idle /\ sm = Idle
    /\ sp = Idle /\ cl = Idle /\ env = Idle /\ drv = Idle

NotSm == <<fp, med, est, nrm, bin, sp, cl, env, drv>>

IdleNotSm ==
    fp = Idle /\ med = Idle /\ est = Idle /\ nrm = Idle /\ bin = Idle
    /\ sp = Idle /\ cl = Idle /\ env = Idle /\ drv = Idle

NotSp == <<fp, med, est, nrm, bin, sm, cl, env, drv>>

IdleNotSp ==
    fp = Idle /\ med = Idle /\ est = Idle /\ nrm = Idle /\ bin = Idle
    /\ sm = Idle /\ cl = Idle /\ env = Idle /\ drv = Idle

NotCl == <<fp, med, est, nrm, bin, sm, sp, env, drv>>

IdleNotCl ==
    fp = Idle /\ med = Idle /\ est = Idle /\ nrm = Idle /\ bin = Idle
    /\ sm = Idle /\ sp = Idle /\ env = Idle /\ drv = Idle

NotEnv == <<fp, med, est, nrm, bin, sm, sp, cl, drv>>

IdleNotEnv ==
    fp = Idle /\ med = Idle /\ est = Idle /\ nrm = Idle /\ bin = Idle
    /\ sm = Idle /\ sp = Idle /\ cl = Idle /\ drv = Idle

NotDrv == <<fp, med, est, nrm, bin, sm, sp, cl, env>>

IdleNotDrv ==
    fp = Idle /\ med = Idle /\ est = Idle /\ nrm = Idle /\ bin = Idle
    /\ sm = Idle /\ sp = Idle /\ cl = Idle /\ env = Idle

(***************************************************************************)
(* float.  A float is modelled by value, with the rounding of IEEE-754     *)
(* binary32 (round to nearest, ties to even): a finite number is           *)
(* s * m * 2^e with m = 0 or 2^23 <= m < 2^24.  Infinities and NaN are     *)
(* kept as such; the sign of zero, subnormals and overflow are outside the *)
(* values the bounded inputs reach.  Products of two significands do not   *)
(* fit TLC's integers and are held as <<hi, lo>> = hi * 2^24 + lo.         *)
(***************************************************************************)
MANT_BITS == 24

M24 == Pow2(MANT_BITS)

M23 == Pow2(MANT_BITS - 1)

M12 == Pow2(MANT_BITS \div 2)

FNum(s, m, e) == [k |-> "num", s |-> s, m |-> m, e |-> e]

FZero == FNum(1, 0, 0)

FNaN == [k |-> "nan", s |-> 1, m |-> 0, e |-> 0]

FInf(s) == [k |-> "inf", s |-> s, m |-> 0, e |-> 0]

IsNaN(x) == x.k = "nan"

IsZero(x) == x.k = "num" /\ x.m = 0

\* The number of bits of n > 0.
RECURSIVE BitLen(_)
BitLen(n) == IF n = 0 THEN 0 ELSE 1 + BitLen(n \div 2)

\* q + 1 when the remainder r of a division by 2 * half rounds q up.
RoundUp(q, r, half) ==
    IF r > half \/ (r = half /\ q % 2 = 1) THEN q + 1 ELSE q

\* The float of sign s nearest to q * 2^e, q <= 2^24 already rounded.
Renorm(s, q, e) == IF q = M24 THEN FNum(s, M23, e + 1) ELSE FNum(s, q, e)

\* (float) n for an integer n: exact below 2^24, rounded above.
FromInt(n) ==
    IF n = 0 THEN FZero
    ELSE LET a == Abs(n)
             s == IF n < 0 THEN -1 ELSE 1
             b == BitLen(a)
         IN  IF b <= MANT_BITS
             THEN FNum(s, a * Pow2(MANT_BITS - b), b - MANT_BITS)
             ELSE LET sh == b - MANT_BITS
                  IN  Renorm(s, RoundUp(a \div Pow2(sh), a % Pow2(sh),
                                        Pow2(sh - 1)), sh)

\* The integer value of an integer-valued float.
ToInt(x) ==
    IF x.e >= 0 THEN x.s * x.m * Pow2(x.e) ELSE x.s * (x.m \div Pow2(-x.e))

\* The float nearest to the integer n, as an integer: the result of a float
\* operation whose exact result is n.
RoundInt(n) == ToInt(FromInt(n))

\* a * b for a, b < 2^24, as <<hi, lo>>.
MulBig(a, b) ==
    LET a1    == a \div M12
        a0    == a % M12
        b1    == b \div M12
        b0    == b % M12
        cross == a1 * b0 + a0 * b1
        low   == (cross % M12) * M12 + a0 * b0
    IN  <<a1 * b1 + cross \div M12 + low \div M24, low % M24>>

BigLe(x, y) == x[1] < y[1] \/ (x[1] = y[1] /\ x[2] <= y[2])

\* <<hi, lo>> + n for a small n >= 0.
BigAdd(x, n) == <<x[1] + (x[2] + n) \div M24, (x[2] + n) % M24>>

\* x - y for x >= y with a difference below 2^24.
BigDiff(x, y) == (x[1] - y[1]) * M24 + x[2] - y[2]

\* m * 2^k for k = 23 or 24, as <<hi, lo>>.
Shifted(m, k) ==
    IF k = MANT_BITS THEN <<m, 0>> ELSE <<m \div 2, (m % 2) * M23>>

\* The float of sign s nearest to (hi * 2^24 + lo) * 2^e, 0 < hi < 2^24.
RoundBig(s, p, e) ==
    LET b == BitLen(p[1])
        q == p[1] * Pow2(MANT_BITS - b) + p[2] \div Pow2(b)
    IN  Renorm(s, RoundUp(q, p[2] % Pow2(b), Pow2(b - 1)), e + b)

\* x * y
FMul(x, y) ==
    IF IsNaN(x) \/ IsNaN(y) THEN FNaN
    ELSE IF x.k = "inf" \/ y.k = "inf"
    THEN IF IsZero(x) \/ IsZero(y) THEN FNaN ELSE FInf(x.s * y.s)
    ELSE IF x.m = 0 \/ y.m = 0 THEN FZero
    ELSE RoundBig(x.s * y.s, MulBig(x.m, y.m), x.e + y.e)

\* The largest q in lo..hi with q * d <= n (n as <<hi, lo>>).
RECURSIVE DivSearch(_, _, _, _)
DivSearch(n, d, lo, hi) ==
    IF lo = hi THEN lo
    ELSE LET mid == (lo + hi + 1) \div 2
         IN  IF BigLe(MulBig(mid, d), n)
             THEN DivSearch(n, d, mid, hi)
             ELSE DivSearch(n, d, lo, mid - 1)

\* x / y
FDiv(x, y) ==
    IF IsNaN(x) \/ IsNaN(y) THEN FNaN
    ELSE IF x.k = "inf" THEN (IF y.k = "inf" THEN FNaN ELSE FInf(x.s * y.s))
    ELSE IF y.k = "inf" THEN FZero
    ELSE IF y.m = 0 THEN (IF x.m = 0 THEN FNaN ELSE FInf(x.s * y.s))
    ELSE IF x.m = 0 THEN FZero
    ELSE LET k == IF x.m >= y.m THEN MANT_BITS - 1 ELSE MANT_BITS
             n == Shifted(x.m, k)
             q == DivSearch(n, y.m, M23, M24 - 1)
             r == BigDiff(n, MulBig(q, y.m))
         IN  Renorm(x.s * y.s,
                    IF 2 * r > y.m \/ (2 * r = y.m /\ q % 2 = 1)
                    THEN q + 1 ELSE q,
                    x.e - y.e - k)

\* The largest r in lo..hi with r * r <= n (n as <<hi, lo>>).
RECURSIVE SqrtSearch(_, _, _)
SqrtSearch(n, lo, hi) ==
    IF lo = hi THEN lo
    ELSE LET mid == (lo + hi + 1) \div 2
         IN  IF BigLe(MulBig(mid, mid), n)
             THEN SqrtSearch(n, mid, hi)
             ELSE SqrtSearch(n, lo, mid - 1)

\* sqrtf(x)
FSqrt(x) ==
    IF IsNaN(x) THEN FNaN
    ELSE IF IsZero(x) THEN FZero
    ELSE IF x.s < 0 THEN FNaN
    ELSE IF x.k = "inf" THEN x
    ELSE LET k == IF (x.e - MANT_BITS) % 2 = 0 THEN MANT_BITS
                  ELSE MANT_BITS - 1
             n == Shifted(x.m, k)
             r == SqrtSearch(n, M23, M24 - 1)
         IN  Renorm(1,
                    IF BigLe(n, BigAdd(MulBig(r, r), r)) THEN r ELSE r + 1,
                    (x.e - k) \div 2)

\* |x| < |y| for x, y not NaN.
MagLt(x, y) ==
    IF x.k = "inf" THEN FALSE
    ELSE IF y.k = "inf" THEN TRUE
    ELSE IF y.m = 0 THEN FALSE
    ELSE IF x.m = 0 THEN TRUE
    ELSE x.e < y.e \/ (x.e = y.e /\ x.m < y.m)

\* x < y; false when either is NaN.
FLt(x, y) ==
    /\ ~IsNaN(x)
    /\ ~IsNaN(y)
    /\ IF x.s < 0
       THEN (IF y.s < 0 THEN MagLt(y, x) ELSE TRUE)
       ELSE (IF y.s < 0 THEN FALSE ELSE MagLt(x, y))

\* fabsf(x)
FAbs(x) == [x EXCEPT !.s = 1]

\* lsp_max(a, b): (a > b) ? a : b
FMax(a, b) == IF FLt(b, a) THEN a ELSE b

\* -x
FNeg(x) == IF x.k = "num" /\ x.m = 0 THEN x ELSE [x EXCEPT !.s = -x.s]

\* m * 2^d for 0 <= d <= 24, as <<hi, lo>>.
ShiftBig(m, d) ==
    <<m \div Pow2(MANT_BITS - d), (m % Pow2(MANT_BITS - d)) * Pow2(d)>>

\* The float of sign s and value n * 2^e for an integer 0 <= n < 2^24.
FSmall(s, n, e) ==
    IF n = 0 THEN FZero
    ELSE FNum(s, n * Pow2(MANT_BITS - BitLen(n)), e - (MANT_BITS - BitLen(n)))

\* x + y for finite non-zero x, y with |x| >= |y|: the exact sum, held in
\* units of the smaller exponent, is rounded once.
AddOrdered(x, y) ==
    LET d    == x.e - y.e
        same == x.s = y.s
        a    == ShiftBig(x.m, d)
        p    == IF same
                THEN <<a[1] + (a[2] + y.m) \div M24, (a[2] + y.m) % M24>>
                ELSE IF a[2] >= y.m THEN <<a[1], a[2] - y.m>>
                ELSE <<a[1] - 1, a[2] + M24 - y.m>>
    IN  IF d > MANT_BITS + 1 THEN x
        ELSE IF d = MANT_BITS + 1
        THEN (IF ~same /\ x.m = M23 /\ y.m > M23
              THEN FNum(x.s, M24 - 1, x.e - 1) ELSE x)
        ELSE IF p[1] = 0 THEN FSmall(x.s, p[2], y.e)
        ELSE RoundBig(x.s, p, y.e)

\* x + y
FAdd(x, y) ==
    IF IsNaN(x) \/ IsNaN(y) THEN FNaN
    ELSE IF x.k = "inf"
    THEN (IF y.k = "inf" /\ x.s # y.s THEN FNaN ELSE x)
    ELSE IF y.k = "inf" THEN y
    ELSE IF x.m = 0 THEN y
    ELSE IF y.m = 0 THEN x
    ELSE IF MagLt(x, y) THEN AddOrdered(y, x) ELSE AddOrdered(x, y)

\* x - y
FSub(x, y) == FAdd(x, FNeg(y))

(***************************************************************************)
(* size_t.  The region fields first/last/peak are size_t and the code      *)
(* stores the ssize_t last_flip (initially -1) into them, so the wrap of   *)
(* the conversion is part of the behaviour.  The width is taken as         *)
(* SIZE_BITS so that sums of two values stay inside TLC's integers; no     *)
(* index of a bounded buffer comes near the wrap except through            *)
(* size_t(-1).                                                             *)
(***************************************************************************)
SIZE_BITS == 30

SIZE_MOD == Pow2(SIZE_BITS)

SIZE_MAX == SIZE_MOD - 1

\* Conversion of a (possibly negative) ssize_t to size_t.
ToSize(x) == x % SIZE_MOD

AddSize(a, b) == (a + b) % SIZE_MOD

SubSize(a, b) == (a - b) % SIZE_MOD

(***************************************************************************)
(* find_peaks(ranges, buf, rms, threshold, count).                         *)
(*                                                                         *)
(* Sample values are small integers: every float operation of the routine  *)
(* (a difference of two samples, fabsf, comparisons) is exact on them.     *)
(* A read outside [0, count) is undefined behaviour: it yields an          *)
(* arbitrary value g and is recorded in the field oob.                     *)
(***************************************************************************)
MaxCount == 4

PeakSamples == {-2, -1, 0, 1, 2}

RmsValues == {0, 3}

Thresholds == {1, 2}

\* range_t
Range(first, last, peak, gain) ==
    [first |-> first, last |-> last, peak |-> peak, gain |-> gain]

InBuf(k, count) == k >= 0 /\ k < count

\* buf[k] for a C index k; g is what an out-of-range read returns.
ReadAt(b, k, g) == IF InBuf(k, Len(b)) THEN b[k + 1] ELSE g

\* The derivative changed its sign: buf[i-1] is a local extremum.
IsExtremum(d_prev, d) ==
    \/ (d_prev < 0 /\ d >= 0)
    \/ (d_prev > 0 /\ d <= 0)

\* The sample changed its sign: i is a zero crossing.
IsFlip(s_prev, s) ==
    \/ (s_prev < 0 /\ s >= 0)
    \/ (s_prev > 0 /\ s <= 0)

\* gain >= r * M_SQRT1_2 for gain >= 0, decided exactly: 1/sqrt(2) is
\* irrational, so for small integers the rounding of the product never
\* reaches an integer gain.
ReachesRms(gain, r) == IF r <= 0 THEN TRUE ELSE 2 * gain * gain >= r * r

\* A test against the global threshold alone.
ReachesGlobal(gain, r, threshold) == gain >= threshold

\* curr->gain >= lsp_max(rms[curr->peak] * M_SQRT1_2, threshold)
ReachesThresh(gain, r, threshold) ==
    ReachesRms(gain, r) /\ gain >= threshold

\* dsp::abs_max_index(&buf[first], n): the index, relative to first, of the
\* first sample of the largest magnitude; 0 for an empty span.
RECURSIVE AbsMaxIndexFrom(_, _, _, _, _, _)
AbsMaxIndexFrom(b, first, n, g, k, best) ==
    IF k >= n THEN best
    ELSE LET v  == Abs(ReadAt(b, AddSize(first, k), g))
             bv == Abs(ReadAt(b, AddSize(first, best), g))
         IN  AbsMaxIndexFrom(b, first, n, g, k + 1, IF v > bv THEN k ELSE best)

AbsMaxIndex(b, first, n, g) ==
    IF n = 0 THEN 0 ELSE AbsMaxIndexFrom(b, first, n, g, 1, 0)

\* Some read of the span [first, first + n) leaves the buffer.
SpanLeavesBuf(first, n, count) ==
    \E k \in 0..(n - 1) : ~InBuf(AddSize(first, k), count)

\* The state of a call before its first iteration.
FindPeaksEntry(buf, rms, threshold, ranges) ==
    [ pc        |-> "scan",
      buf       |-> buf,
      rms       |-> rms,
      threshold |-> threshold,
      count     |-> Len(buf),
      out       |-> <<Range(0, 0, 0, 0)>>,
      s_prev    |-> 0,
      d_prev    |-> 0,
      num_flips |-> 0,
      last_flip |-> -1,
      i         |-> 0,
      cuts      |-> 0,
      oob       |-> FALSE,
      ranges    |-> ranges ]

\* The candidate recorded at the index of the current sample.
WithCandidateAtCurrent(out, b, i, d_prev, d) ==
    LET c    == Len(out)
        gain == Abs(b[i])
    IN  IF IsExtremum(d_prev, d) /\ out[c].gain < gain
        THEN [out EXCEPT ![c].gain = gain, ![c].peak = i]
        ELSE out

\* Lines 895-906: the peak candidate of the open region.
WithCandidate(out, b, i, d_prev, d) ==
    LET c    == Len(out)
        gain == Abs(b[i])          \* fabsf(buf[i-1]), C index i-1
    IN  IF IsExtremum(d_prev, d) /\ out[c].gain < gain
        THEN [out EXCEPT ![c].gain = gain, ![c].peak = i - 1]
        ELSE out

\* Lines 920-937: more than one flip since the last cut; the span before
\* the last flip is split off and the open region restarts at last_flip.
SplitOff(out, b, last_flip, g) ==
    LET c     == Len(out)
        gain  == out[c].gain
        peak  == out[c].peak
        first == out[c].first
        last  == ToSize(last_flip)
        n     == SubSize(last, first)
        npeak == AddSize(first, AbsMaxIndex(b, first, n, g))
        head  == [out EXCEPT ![c].last = last,
                             ![c].peak = npeak,
                             ![c].gain = Abs(ReadAt(b, npeak, g))]
    IN  Append(head, Range(last, last, peak, gain))

\* Lines 939-949: close the open region at i and open the next one.
CloseAt(out, i, last_flip) ==
    LET c == Len(out)
        f == ToSize(last_flip)
    IN  Append([out EXCEPT ![c].last = i], Range(f, f, f, 0))

\* One iteration of the loop of lines 890-962.
FindPeaksIter(st, g) ==
    LET i      == st.i
        s      == st.buf[i + 1]
        d      == s - st.s_prev
        out1   == WithCandidate(st.out, st.buf, i, st.d_prev, d)
        c      == Len(out1)
        flip   == IsFlip(st.s_prev, s)
        flips  == st.num_flips + 1
        rmsOob == ~InBuf(out1[c].peak, st.count)
        r      == ReadAt(st.rms, out1[c].peak, g)
        cut    == flip /\ ReachesThresh(out1[c].gain, r, st.threshold)
        split  == cut /\ flips > 1
        spOob  == split /\
                  LET n  == SubSize(ToSize(st.last_flip), out1[c].first)
                      np == AddSize(out1[c].first,
                                    AbsMaxIndex(st.buf, out1[c].first, n, g))
                  IN  SpanLeavesBuf(out1[c].first, n, st.count)
                        \/ ~InBuf(np, st.count)
        out2   == IF split THEN SplitOff(out1, st.buf, st.last_flip, g) ELSE out1
        out3   == IF cut THEN CloseAt(out2, i, st.last_flip) ELSE out2
    IN  [st EXCEPT
            !.out       = out3,
            !.num_flips = IF cut THEN 0 ELSE IF flip THEN flips ELSE @,
            !.last_flip = IF flip THEN i ELSE @,
            !.cuts      = IF split THEN 2 ELSE IF cut THEN 1 ELSE 0,
            !.oob       = @ \/ (flip /\ rmsOob) \/ spOob,
            !.s_prev    = s,
            !.d_prev    = d,
            !.i         = i + 1]

\* Lines 964-973: the trailing open region and the swap into ranges.
FindPeaksReturn(st) ==
    LET c   == Len(st.out)
        fin == IF st.out[c].first >= st.count
               THEN SubSeq(st.out, 1, c - 1)
               ELSE [st.out EXCEPT ![c].last = st.count]
    IN  [st EXCEPT !.pc = "done", !.out = <<>>, !.ranges = fin, !.cuts = 0]

FindPeaksStep ==
    /\ fp.pc = "scan"
    /\ fp.i < fp.count
    /\ \E g \in PeakSamples : fp' = FindPeaksIter(fp, g)
    /\ UNCHANGED NotFp

FindPeaksFinish ==
    /\ fp.pc = "scan"
    /\ fp.i = fp.count
    /\ fp' = FindPeaksReturn(fp)
    /\ UNCHANGED NotFp

\* out.add() returns NULL, before the loop (line 883) or at a cut (lines
\* 931, 943): STATUS_NO_MEM, the local list is dropped.
FindPeaksNoMem ==
    /\ fp.pc = "scan"
    /\ \/ fp.i = 0
       \/ /\ fp.i < fp.count
          /\ \E g \in PeakSamples : FindPeaksIter(fp, g).cuts > 0
    /\ fp' = [fp EXCEPT !.pc = "failed", !.out = <<>>]
    /\ UNCHANGED NotFp

\* What the destination list holds before the call.
StaleRanges == <<Range(0, 1, 0, 1)>>

InitPeaks ==
    /\ \E buf \in SeqsOf(PeakSamples, 0, MaxCount) :
          \E rms \in [1..Len(buf) -> RmsValues] :
              \E threshold \in Thresholds :
                  fp = FindPeaksEntry(buf, rms, threshold, StaleRanges)
    /\ IdleNotFp

NextPeaks == FindPeaksStep \/ FindPeaksFinish \/ FindPeaksNoMem

SpecPeaks == InitPeaks /\ [][NextPeaks]_vars

(***************************************************************************)
(* Claims about find_peaks.                                                *)
(***************************************************************************)
\* The regions are ascending and tile [0, count) exactly.
Tiles(rs, count) ==
    /\ Len(rs) >= 1
    /\ rs[1].first = 0
    /\ \A k \in 1..(Len(rs) - 1) : rs[k].last = rs[k + 1].first
    /\ rs[Len(rs)].last = count

\* C1: for count > 0 the regions find_peaks returns tile [0, count):
\* the first starts at 0, each ends where the next starts, the last ends
\* at count.
C1_RegionsTile ==
    (fp.pc = "done" /\ fp.count > 0) => Tiles(fp.ranges, fp.count)

\* C2: every returned region has 0 <= first <= peak < last <= count and
\* no read made while building or splitting a region left [0, count).
C2_RegionBounds ==
    fp.pc = "done" =>
        /\ ~fp.oob
        /\ \A k \in 1..Len(fp.ranges) :
               LET r == fp.ranges[k]
               IN  0 <= r.first /\ r.first <= r.peak /\ r.peak < r.last
                     /\ r.last <= fp.count

\* The sample read at the iteration fp.i is a zero crossing.
Crossing == IsFlip(fp.s_prev, fp.buf[fp.i + 1])

\* The number of regions the step finalizes: the list ends with the open
\* region, so every region appended closes one.
Finalized == Len(fp'.out) - Len(fp.out)

\* The region r, whose peak is inside the buffer, passes the test of the
\* adaptive threshold max(rms[peak] * 0.7071, threshold).
Passes(r) ==
    /\ r.gain >= fp.threshold
    /\ (r.peak < fp.count /\ fp.rms[r.peak + 1] > 0)
           => 2 * r.gain * r.gain >= fp.rms[r.peak + 1] * fp.rms[r.peak + 1]

\* The region that was open when the crossing was tested: the last but one
\* of the list after a finalization, the last one otherwise.
Tested ==
    IF Finalized > 0 THEN fp'.out[Len(fp'.out) - 1]
    ELSE fp'.out[Len(fp'.out)]

\* The step leaves the finalized regions and the bounds of the open one
\* alone.
KeepsRegions ==
    /\ Len(fp'.out) = Len(fp.out)
    /\ \A n \in 1..(Len(fp.out) - 1) : fp'.out[n] = fp.out[n]
    /\ fp'.out[Len(fp.out)].first = fp.out[Len(fp.out)].first
    /\ fp'.out[Len(fp.out)].last = fp.out[Len(fp.out)].last

ScanStep ==
    (fp.pc = "scan" /\ fp'.pc = "scan" /\ fp'.i = fp.i + 1) =>
        /\ Finalized \in {0, 1, 2}
        /\ Finalized > 0 <=> (Crossing /\ Passes(Tested))
        /\ Finalized = 1 => fp.num_flips = 0
        /\ Finalized = 2 => fp.num_flips > 0
        /\ Finalized > 0 => fp'.num_flips = 0
        /\ Finalized = 0 => KeepsRegions

\* C20: find_peaks finalizes regions only at a zero crossing at which the
\* open region's peak magnitude is >= max(rms[peak] * 0.7071, threshold):
\* one region at the first flip since the last finalization, two after
\* more than one flip; the flip counter is 0 after every finalization, and
\* a crossing below the threshold appends and modifies no region.
C20_CutsAtCrossings == [][ScanStep]_vars

\* Two regions have just been finalized at one crossing.
C20_Witness ==
    /\ fp.pc = "scan"
    /\ fp.cuts = 2
    /\ fp.num_flips = 0
    /\ Len(fp.out) >= 3

\* The regions of a finished call whose peak index is inside the buffer.
PeakedRegions ==
    {k \in 1..Len(fp.ranges) : InBuf(fp.ranges[k].peak, fp.count)}

\* The region r recorded no local extremum: it still is as it was opened,
\* with the gain 0 and the peak at its first index.
Unpeaked(r) == r.gain = 0 /\ r.peak = r.first

\* C21 as stated: the gain of every returned region is the signed sample
\* buf[peak].
C21_GainIsSignedSample ==
    fp.pc = "done" =>
        \A k \in PeakedRegions :
            fp.ranges[k].gain = fp.buf[fp.ranges[k].peak + 1]

\* C21: the gain of every returned region whose peak index is inside the
\* buffer is the magnitude |buf[peak]|, never negative, unless the region
\* recorded no local extremum and keeps the gain 0 at peak = first.
C21_GainIsMagnitude ==
    fp.pc = "done" =>
        \A k \in PeakedRegions :
            LET r == fp.ranges[k]
            IN  /\ r.gain >= 0
                /\ r.gain = Abs(fp.buf[r.peak + 1]) \/ Unpeaked(r)

\* A returned region peaks at a negative sample and holds its magnitude.
C21_Witness ==
    /\ fp.pc = "done"
    /\ ~fp.oob
    /\ \E k \in PeakedRegions :
           /\ fp.buf[fp.ranges[k].peak + 1] < 0
           /\ fp.ranges[k].gain = -fp.buf[fp.ranges[k].peak + 1]

(***************************************************************************)
(* median_value(res, list) over lltl::darray<peak_t>.                      *)
(*                                                                         *)
(* me is the array of pointers into list: an element of me is the          *)
(* position of a list item.  qsort is the library's: it leaves me a        *)
(* permutation ordered by compare_peak, in any order among equal gains.    *)
(* Gains are small integers, on which the float operations are exact.      *)
(***************************************************************************)
MaxList == 5

MedianGains == {1, 2, 3, 4, 5}

\* peak_t
Peak(index, gain) == [index |-> index, gain |-> gain]

\* compare_peak(a, b)
ComparePeak(a, b) ==
    IF a.gain < b.gain THEN -1 ELSE IF a.gain > b.gain THEN 1 ELSE 0

InsertAt(v, pos, x) ==
    SubSeq(v, 1, pos) \o <<x>> \o SubSeq(v, pos + 1, Len(v))

\* The orderings of the pointers 1..k that me.qsort(compare_peak) may leave.
RECURSIVE SortedViews(_, _)
SortedViews(list, k) ==
    IF k = 0 THEN {<<>>}
    ELSE UNION {
           { InsertAt(v, pos, k) :
               pos \in { q \in 0..(k - 1) :
                   /\ \A j \in 1..q :
                        ComparePeak(list[v[j]], list[k]) <= 0
                   /\ \A j \in (q + 1)..(k - 1) :
                        ComparePeak(list[k], list[v[j]]) <= 0 } } :
           v \in SortedViews(list, k - 1) }

\* 0.5f
FHalf == FNum(1, M23, -MANT_BITS)

\* A median_value that takes the middle element of an odd-sized list and
\* averages the two middle elements of an even-sized one.
MedianOfMiddle(list, me) ==
    LET size == Len(list)
        at(k) == list[me[k + 1]].gain
    IN  IF size < 2
        THEN (IF size > 0 THEN FromInt(at(0)) ELSE FZero)
        ELSE IF size % 2 = 1
        THEN FromInt(at(size \div 2))
        ELSE FMul(FHalf, FromInt(RoundInt(at(size \div 2 - 1) + at(size \div 2))))

\* Lines 1218-1231: the value picked from the sorted view (uget is 0-based).
MedianOf(list, me) ==
    LET size == Len(list)
        at(k) == list[me[k + 1]].gain
    IN  IF size < 2
        THEN (IF size > 0 THEN FromInt(at(0)) ELSE FZero)
        ELSE IF size % 2 = 1
        THEN FMul(FHalf, FromInt(RoundInt(at(size \div 2) + at(size \div 2 + 1))))
        ELSE FromInt(at(size \div 2))

MedianEntry(list) ==
    [ pc    |-> "collect",
      list  |-> list,
      list0 |-> list,
      me    |-> <<>>,
      res   |-> FNaN ]

\* Lines 1207-1214: reserve and fill the pointer array.
MedianCollect ==
    /\ med.pc = "collect"
    /\ med' = [med EXCEPT !.pc = "sort", !.me = [k \in 1..Len(med.list) |-> k]]
    /\ UNCHANGED NotMed

\* Lines 1207-1213: reserve or add fails; median_value returns false.
MedianNoMem ==
    /\ med.pc = "collect"
    /\ med' = [med EXCEPT !.pc = "failed"]
    /\ UNCHANGED NotMed

\* Line 1216
MedianSort ==
    /\ med.pc = "sort"
    /\ \E v \in SortedViews(med.list, Len(med.list)) :
          med' = [med EXCEPT !.pc = "pick", !.me = v]
    /\ UNCHANGED NotMed

\* Lines 1218-1231
MedianPick ==
    /\ med.pc = "pick"
    /\ med' = [med EXCEPT !.pc = "done", !.res = MedianOf(med.list, med.me)]
    /\ UNCHANGED NotMed

InitMedian ==
    /\ \E gains \in SeqsOf(MedianGains, 0, MaxList) :
          med = MedianEntry([k \in 1..Len(gains) |-> Peak(k, gains[k])])
    /\ IdleNotMed

NextMedian == MedianCollect \/ MedianNoMem \/ MedianSort \/ MedianPick

SpecMedian == InitMedian /\ [][NextMedian]_vars

(***************************************************************************)
(* Claims about median_value.                                              *)
(***************************************************************************)
\* The gains of the list, as a sequence.
GainsOf(list) == [k \in 1..Len(list) |-> list[k].gain]

\* The k-th smallest gain (k from 1), by counting.
KthSmallest(list, k) ==
    CHOOSE g \in {list[j].gain : j \in 1..Len(list)} :
        /\ Cardinality({j \in 1..Len(list) : list[j].gain < g}) < k
        /\ Cardinality({j \in 1..Len(list) : list[j].gain <= g}) >= k

\* C3: median_value returns 3 for the gains 1..5 in any order, 0 for an
\* empty list and x for the list [x].
C3_MedianExamples ==
    med.pc = "done" =>
        /\ (Len(med.list) = 5
              /\ {med.list[k].gain : k \in 1..5} = {1, 2, 3, 4, 5})
             => med.res = FromInt(3)
        /\ Len(med.list) = 0 => med.res = FZero
        /\ Len(med.list) = 1 => med.res = FromInt(med.list[1].gain)

\* C4: for n >= 2 items with ascending gains s[0..n-1] the result is
\* (s[n/2] + s[n/2+1]) / 2 for odd n and s[n/2] for even n, duplicates
\* included, and the list is the same after the call as before.
C4_MedianFormula ==
    (med.pc = "done" /\ Len(med.list0) >= 2) =>
        LET n    == Len(med.list0)
            s(k) == KthSmallest(med.list0, k + 1)
        IN  /\ med.list = med.list0
            /\ IF n % 2 = 1
               THEN FMul(FromInt(2), med.res)
                      = FromInt(s(n \div 2) + s(n \div 2 + 1))
               ELSE med.res = FromInt(s(n \div 2))

\* C4 witness: an odd-sized list with a duplicated gain, given out of order,
\* has been through the sort and the pick.
C4_Witness ==
    /\ med.pc = "done"
    /\ Len(med.list) = 5
    /\ GainsOf(med.list) = <<5, 3, 3, 1, 4>>
    /\ med.me # <<1, 2, 3, 4, 5>>

(***************************************************************************)
(* estimate_rms, estimate_average, estimate_partial_rms and                *)
(* estimate_rms_balance.  The four routines share their frame (buffers of  *)
(* slength + period samples, the weighting filter run over the input and   *)
(* over period samples of zero padding, one pass per channel) and differ   *)
(* in the body of the window loop; est.kind names the routine being run.   *)
(*                                                                         *)
(* A Sample is the sequence of its channels.  Input samples are integers,  *)
(* so the accumulators are integer-valued floats: every sum, difference    *)
(* and product is rounded to the nearest float by RoundInt.  The outputs   *)
(* are floats.  The weighting is NO_WEIGHT: the filter passes its input.   *)
(***************************************************************************)
MaxSamples == 3

MaxPeriod == 2

EstChannels == {1, 2}

EstValues == {-4096, -1, 0, 1, 4096}

EstKinds == {"rms", "average", "partial", "balance"}

\* dspu::Filter::process with FLT_NONE
FilterNone(x) == x

Zeros(n) == [k \in 1..n |-> 0]

\* A dlength that leaves the padding out.
EstLengthInput(slength, period) == slength

\* size_t dlength = slength + period
EstLength(slength, period) == slength + period

\* out.init(channels, dlength, dlength): zero-filled channels.
SampleInit(channels, length) ==
    [c \in 1..channels |-> [k \in 1..length |-> FZero]]

\* The number of channels of out: five streams per source channel in
\* estimate_rms_balance.
EstOutChannels(kind, n) == IF kind = "balance" THEN 5 * n ELSE n

\* A kperiod that counts one sample more than the window holds.
KPeriodOffByOne(period) == FDiv(FromInt(1), FromInt(period + 1))

\* float kperiod = 1.0f / period
KPeriod(period) == FDiv(FromInt(1), FromInt(period))

\* sqrtf(lsp_max(rms, 0.0f) * kperiod)
RmsOut(rms, kperiod) == FSqrt(FMul(FMax(FromInt(rms), FZero), kperiod))

\* The value a sample contributes to the accumulator of each routine.
Square(x) == RoundInt(x * x)

Rectified(x, positive) == IF positive THEN Max2(x, 0) ELSE -Min2(x, 0)

\* What a destination Sample holds before a call.
StaleSample == <<<<FromInt(1)>>>>

EstEntry(kind, positive, src, period, dst) ==
    [ pc       |-> "alloc",
      kind     |-> kind,
      positive |-> positive,
      src      |-> src,
      period   |-> period,
      slength  |-> Len(src[1]),
      dlength  |-> EstLength(Len(src[1]), period),
      tmp      |-> <<>>,
      out      |-> <<>>,
      kperiod  |-> FZero,
      i        |-> 0,
      j        |-> 0,
      rms      |-> 0,
      nrms     |-> 0,
      dst      |-> dst ]

\* tmp.init, out.init and kperiod (lines 247-261 and their copies).
EstAlloc ==
    /\ est.pc = "alloc"
    /\ est' = [est EXCEPT
          !.pc      = "channel",
          !.tmp     = [c \in 1..Len(est.src) |-> Zeros(est.dlength)],
          !.out     = SampleInit(EstOutChannels(est.kind, Len(est.src)),
                                 est.dlength),
          !.kperiod = KPeriod(est.period)]
    /\ UNCHANGED NotEst

\* f.init, tmp.init or out.init fails: STATUS_NO_MEM, dst untouched.
EstNoMem ==
    /\ est.pc = "alloc"
    /\ est' = [est EXCEPT !.pc = "failed"]
    /\ UNCHANGED NotEst

\* The head of the channel loop: the filter over the input and over the
\* padding, the accumulators reset (lines 265-277).
EstChannel ==
    /\ est.pc = "channel"
    /\ est.i < Len(est.src)
    /\ est' = [est EXCEPT
          !.pc   = "window",
          !.tmp  = [@ EXCEPT ![est.i + 1] =
                       FilterNone(est.src[est.i + 1])
                         \o FilterNone(Zeros(est.period))],
          !.rms  = 0,
          !.nrms = 0,
          !.j    = 0]
    /\ UNCHANGED NotEst

\* sbuf[k] of the channel being processed, for a C index k.
Sbuf(st, k) == st.tmp[st.i + 1][k + 1]

\* The sample leaving the window at the step j (C index j - period), if any.
HasLeaving(st) == st.j - st.period >= 0

Leaving(st) == Sbuf(st, st.j - st.period)

Entering(st) == Sbuf(st, st.j)

\* An update that never subtracts the term leaving the window.
SlideNoLeave(acc, hasOld, old, new) == RoundInt(acc + new)

\* The accumulator after a step: the term leaving the window is subtracted
\* (when there is one), then the term entering it is added.
Slide(acc, hasOld, old, new) ==
    RoundInt((IF hasOld THEN RoundInt(acc - old) ELSE acc) + new)

\* The accumulator of estimate_rms after the step j (lines 281-284).
RmsAcc(st) ==
    Slide(st.rms, HasLeaving(st), Square(Leaving(st)), Square(Entering(st)))

\* The accumulator of estimate_average after the step j (lines 747-750).
AverageAcc(st) ==
    Slide(st.rms, HasLeaving(st), Leaving(st), Entering(st))

\* The accumulator of estimate_partial_rms after the step j (lines 651-658).
PartialAcc(st) ==
    Slide(st.rms, HasLeaving(st),
          Square(Rectified(Leaving(st), st.positive)),
          Square(Rectified(Entering(st), st.positive)))

\* The two accumulators of estimate_rms_balance after the step j
\* (lines 380-393): a sample is accounted to nrms when negative, to prms
\* otherwise.
PositiveTerm(x) == IF x < 0 THEN 0 ELSE Square(x)

NegativeTerm(x) == IF x < 0 THEN Square(x) ELSE 0

BalancePAcc(st) ==
    Slide(st.rms, HasLeaving(st) /\ Leaving(st) >= 0,
          PositiveTerm(Leaving(st)), PositiveTerm(Entering(st)))

BalanceNAcc(st) ==
    Slide(st.nrms, HasLeaving(st) /\ Leaving(st) < 0,
          NegativeTerm(Leaving(st)), NegativeTerm(Entering(st)))

\* estimate_rms, lines 278-286.
EstRmsStep ==
    /\ est.pc = "window"
    /\ est.kind = "rms"
    /\ est.j < est.dlength
    /\ est' = [est EXCEPT
          !.rms = RmsAcc(est),
          !.out[est.i + 1][est.j + 1] = RmsOut(RmsAcc(est), est.kperiod),
          !.j   = @ + 1]
    /\ UNCHANGED NotEst

\* estimate_average, lines 744-752.
EstAverageStep ==
    /\ est.pc = "window"
    /\ est.kind = "average"
    /\ est.j < est.dlength
    /\ est' = [est EXCEPT
          !.rms = AverageAcc(est),
          !.out[est.i + 1][est.j + 1] =
              FMul(FromInt(AverageAcc(est)), est.kperiod),
          !.j   = @ + 1]
    /\ UNCHANGED NotEst

\* estimate_partial_rms, lines 648-660.
EstPartialStep ==
    /\ est.pc = "window"
    /\ est.kind = "partial"
    /\ est.j < est.dlength
    /\ est' = [est EXCEPT
          !.rms = PartialAcc(est),
          !.out[est.i + 1][est.j + 1] = RmsOut(PartialAcc(est), est.kperiod),
          !.j   = @ + 1]
    /\ UNCHANGED NotEst

\* The five output values of estimate_rms_balance at one position
\* (lines 395-399): prms, nrms, ravg, pgain, ngain.
BalanceOut(prms, nrms, kperiod) ==
    LET op == RmsOut(prms, kperiod)
        on == RmsOut(nrms, kperiod)
        ra == FSqrt(FMul(op, on))
    IN  <<op, on, ra, FDiv(ra, op), FDiv(ra, on)>>

\* estimate_rms_balance, lines 377-400.
EstBalanceStep ==
    /\ est.pc = "window"
    /\ est.kind = "balance"
    /\ est.j < est.dlength
    /\ LET prms == BalancePAcc(est)
           nrms == BalanceNAcc(est)
           o    == BalanceOut(prms, nrms, est.kperiod)
           c    == 5 * est.i
       IN  est' = [est EXCEPT
              !.rms  = prms,
              !.nrms = nrms,
              !.out  = [ch \in 1..Len(est.out) |->
                          IF ch \in (c + 1)..(c + 5)
                          THEN [est.out[ch] EXCEPT ![est.j + 1] = o[ch - c]]
                          ELSE est.out[ch]],
              !.j    = @ + 1]
    /\ UNCHANGED NotEst

\* The window loop of a channel is over: ++i.
EstNextChannel ==
    /\ est.pc = "window"
    /\ est.j = est.dlength
    /\ est' = [est EXCEPT !.pc = "channel", !.i = @ + 1]
    /\ UNCHANGED NotEst

\* out.swap(dst); return STATUS_OK
EstReturn ==
    /\ est.pc = "channel"
    /\ est.i = Len(est.src)
    /\ est' = [est EXCEPT !.pc = "done", !.dst = est.out, !.out = est.dst]
    /\ UNCHANGED NotEst

\* The Samples of up to MaxSamples input samples.
EstSources ==
    UNION { UNION { [1..c -> [1..n -> EstValues]] :
                      n \in 0..(MaxSamples \div c) } :
              c \in EstChannels }

InitEst ==
    /\ \E kind \in EstKinds, positive \in BOOLEAN :
          \E src \in EstSources, period \in 1..MaxPeriod :
              /\ positive \/ kind = "partial"
              /\ est = EstEntry(kind, positive, src, period, StaleSample)
    /\ IdleNotEst

NextEst ==
    \/ EstAlloc
    \/ EstNoMem
    \/ EstChannel
    \/ EstRmsStep
    \/ EstAverageStep
    \/ EstPartialStep
    \/ EstBalanceStep
    \/ EstNextChannel
    \/ EstReturn

SpecEst == InitEst /\ [][NextEst]_vars

(***************************************************************************)
(* estimate_rms over signals of constant magnitude: one channel of N = W   *)
(* or W + 1 samples that are all a, all -a, or a and -a in alternation,    *)
(* for every window W up to MaxConstWin.                                   *)
(***************************************************************************)
MaxConstWin == 41

ConstMagnitudes == {1, 3, 100}

ConstSigns == {"positive", "negative", "alternating"}

ConstSignal(a, n, signs) ==
    [k \in 1..n |->
        IF signs = "positive" THEN a
        ELSE IF signs = "negative" THEN -a
        ELSE IF k % 2 = 1 THEN a ELSE -a]

InitConst ==
    /\ \E a \in ConstMagnitudes, signs \in ConstSigns :
          \E period \in 1..MaxConstWin :
              \E n \in {period, period + 1} :
                  est = EstEntry("rms", TRUE, <<ConstSignal(a, n, signs)>>,
                                 period, StaleSample)
    /\ IdleNotEst

NextConst ==
    \/ EstAlloc
    \/ EstNoMem
    \/ EstChannel
    \/ EstRmsStep
    \/ EstNextChannel
    \/ EstReturn

SpecConst == InitConst /\ [][NextConst]_vars

(***************************************************************************)
(* Claims about the estimators.                                            *)
(***************************************************************************)

\* C5: on success estimate_rms, estimate_average and estimate_partial_rms
\* return a Sample of C channels, estimate_rms_balance one of 5*C channels,
\* and every channel holds exactly N + W samples, N being the length of the
\* source, C its number of channels and W the window.
C5_OutputShape ==
    est.pc = "done" =>
        /\ Len(est.dst) =
              (IF est.kind = "balance" THEN 5 ELSE 1) * Len(est.src)
        /\ \A ch \in 1..Len(est.dst) :
              Len(est.dst[ch]) = Len(est.src[1]) + est.period

C5_Witness ==
    /\ est.pc = "done"
    /\ est.kind = "balance"
    /\ Len(est.src) = 2
    /\ Len(est.src[1]) = 1
    /\ est.period = 2
    /\ Len(est.dst) = 10
    /\ Len(est.dst[10]) = 3

\* The term the position k of the padded channel contributes to the
\* accumulator: x[k]^2 in estimate_rms, x[k] in estimate_average.
TermAt(st, k) ==
    IF st.kind = "rms" THEN Square(Sbuf(st, k)) ELSE Sbuf(st, k)

WindowLo(j, period) == Max2(0, j - period + 1)

\* The window lo..hi summed from scratch in float arithmetic.
RECURSIVE DirectSum(_, _, _)
DirectSum(st, lo, hi) ==
    IF hi < lo THEN 0
    ELSE RoundInt(DirectSum(st, lo, hi - 1) + TermAt(st, hi))

\* The window lo..hi summed in the integers.
RECURSIVE ExactSum(_, _, _)
ExactSum(st, lo, hi) ==
    IF hi < lo THEN 0 ELSE ExactSum(st, lo, hi - 1) + TermAt(st, hi)

RECURSIVE AbsSum(_, _, _)
AbsSum(st, lo, hi) ==
    IF hi < lo THEN 0 ELSE AbsSum(st, lo, hi - 1) + Abs(TermAt(st, hi))

\* Every sum the accumulator went through up to the position j - 1 is an
\* integer of magnitude at most 2^24, hence a float: the magnitudes of the
\* terms of every window, its leaving term included, sum to at most 2^24.
ExactWindows(st) ==
    \A q \in 0..(st.j - 1) :
        AbsSum(st, Max2(0, q - st.period), q) <= M24

\* The positions 0..j-1 of the channel i have been processed.
Processed(st) ==
    /\ st.pc = "window"
    /\ st.kind \in {"rms", "average"}
    /\ st.j >= 1

\* C6 (as claimed): after the output position j the accumulator of
\* estimate_rms equals the sum of x[k]^2 over the trailing window
\* max(0, j-W+1)..j of the zero-padded input recomputed from scratch, and
\* the accumulator of estimate_average the sum of x[k] over it.
C6_IncrementalEqualsDirect ==
    Processed(est) =>
        est.rms = DirectSum(est, WindowLo(est.j - 1, est.period), est.j - 1)

\* C6 (amended): the accumulator equals the sum over the trailing window
\* whenever no sum formed so far needed rounding.
C6_IncrementalEqualsDirectWhenExact ==
    (Processed(est) /\ ExactWindows(est)) =>
        est.rms = ExactSum(est, WindowLo(est.j - 1, est.period), est.j - 1)

C6_Witness ==
    /\ Processed(est)
    /\ ExactWindows(est)
    /\ est.kind = "rms"
    /\ est.period = 2
    /\ est.src[1] = <<1, -1, 1>>
    /\ est.j = 3
    /\ est.rms = 2

\* C8: on an input whose samples are all >= 0 estimate_rms_balance yields,
\* at every output position, a negative-branch RMS of 0 and a positive gain
\* multiplier of 1.
C8_NonNegativeBalance ==
    ( /\ est.pc = "done"
      /\ est.kind = "balance"
      /\ \A c \in 1..Len(est.src) : \A k \in 1..Len(est.src[c]) :
            est.src[c][k] >= 0 ) =>
        \A c \in 1..Len(est.src) : \A p \in 1..Len(est.dst[1]) :
            /\ est.dst[5 * (c - 1) + 2][p] = FZero
            /\ est.dst[5 * (c - 1) + 4][p] = FromInt(1)

\* The floats next to a positive float x.
FSucc(x) == Renorm(x.s, x.m + 1, x.e)

FPred(x) ==
    IF x.m = M23 THEN FNum(x.s, M24 - 1, x.e - 1) ELSE FNum(x.s, x.m - 1, x.e)

IsPow2(n) == \E k \in 0..BitLen(n) : n = Pow2(k)

\* The magnitude of a signal whose samples all have the same magnitude.
Magnitude(st) == Abs(st.src[1][1])

\* estimate_rms has just written the output position j - 1 of a signal of
\* constant magnitude, and that position lies in [W-1, N-1].
WindowFull(st) ==
    /\ st.pc = "window"
    /\ st.kind = "rms"
    /\ st.slength >= st.period
    /\ \A k \in 1..st.slength : Abs(st.src[1][k]) = Magnitude(st)
    /\ st.j - 1 >= st.period - 1
    /\ st.j - 1 <= st.slength - 1

\* C7 (as claimed): for an input whose samples all have the magnitude A, of
\* length N >= W, the output of estimate_rms equals exactly A at every
\* position j in [W-1, N-1], the accumulator being W * A^2 there.
C7_ConstantRmsExact ==
    WindowFull(est) =>
        /\ est.rms = est.period * Magnitude(est) * Magnitude(est)
        /\ est.out[1][est.j] = FromInt(Magnitude(est))

\* C7 (amended): at those positions the accumulator is W * A^2 (the sums
\* being exact), and the output is A when W is a power of two and A or one
\* of the two floats next to A otherwise.
C7_ConstantRmsWithinUlp ==
    WindowFull(est) =>
        /\ est.rms = est.period * Magnitude(est) * Magnitude(est)
        /\ est.out[1][est.j] \in { FPred(FromInt(Magnitude(est))),
                                   FromInt(Magnitude(est)),
                                   FSucc(FromInt(Magnitude(est))) }
        /\ IsPow2(est.period) => est.out[1][est.j] = FromInt(Magnitude(est))

C7_Witness ==
    /\ WindowFull(est)
    /\ est.period = 41
    /\ est.slength = 42
    /\ est.j = 42
    /\ est.src[1][1] = -1
    /\ est.rms = 41
    /\ est.out[1][42] = FPred(FromInt(1))

(***************************************************************************)
(* normalize.  The buffer is a Sample of float channels; nrm.dst0 keeps    *)
(* the buffer as it was on entry.                                          *)
(***************************************************************************)
MaxNormSamples == 3

NormChannels == {1, 2}

\* 2^-21, a sample below the 1e-6 silence threshold.
FTiny == FNum(1, M23, -44)

NormValues == {FZero, FTiny, FromInt(-1), FromInt(3), FromInt(-41)}

NormGains == {FZero, FromInt(1), FromInt(3)}

\* enum normalize_t
normalize_t == {"NORM_NONE", "NORM_ABOVE", "NORM_BELOW", "NORM_ALWAYS"}

\* x <= y; false when either is NaN.
FLe(x, y) == ~IsNaN(x) /\ ~IsNaN(y) /\ ~FLt(y, x)

\* peak < 1e-6 for a non-negative float peak, compared as doubles: the
\* double 1e-6 lies between 8796093 * 2^-43 and 8796094 * 2^-43.
BelowSilence(peak) ==
    /\ ~IsNaN(peak)
    /\ peak.k = "num"
    /\ \/ peak.m = 0
       \/ peak.e < -43
       \/ peak.e = -43 /\ peak.m <= 8796093

\* The largest value instead of the largest magnitude.
RECURSIVE MaxValue(_, _)
MaxValue(buf, n) ==
    IF n = 0 THEN FZero ELSE FMax(MaxValue(buf, n - 1), buf[n])

\* dsp::abs_max(buf, count): the largest magnitude of the first n values,
\* 0 for none.
RECURSIVE AbsMaxValue(_, _)
AbsMaxValue(buf, n) ==
    IF n = 0 THEN FZero ELSE FMax(AbsMaxValue(buf, n - 1), FAbs(buf[n]))

\* dsp::mul_k2(buf, k, count)
MulK2(buf, k) == [n \in 1..Len(buf) |-> FMul(buf[n], k)]

\* A switch with the tests of NORM_BELOW and NORM_ABOVE exchanged.
NormKeepsSwapped(mode, peak, gain) ==
    \/ mode = "NORM_BELOW" /\ FLe(peak, gain)
    \/ mode = "NORM_ABOVE" /\ FLe(gain, peak)

\* The switch on mode: the cases that return without scaling.
NormKeeps(mode, peak, gain) ==
    \/ mode = "NORM_BELOW" /\ FLe(gain, peak)
    \/ mode = "NORM_ABOVE" /\ FLe(peak, gain)

\* float k = gain / peak
NormFactor(gain, peak) == FDiv(gain, peak)

NormEntry(dst, gain, mode) ==
    [ pc   |-> "entry",
      dst  |-> dst,
      dst0 |-> dst,
      gain |-> gain,
      mode |-> mode,
      peak |-> FZero,
      k    |-> FZero,
      i    |-> 0 ]

\* if (mode == NORM_NONE) return STATUS_OK
NormNone ==
    /\ nrm.pc = "entry"
    /\ nrm.mode = "NORM_NONE"
    /\ nrm' = [nrm EXCEPT !.pc = "done"]
    /\ UNCHANGED NotNrm

\* float peak = 0.0f and the head of the scan
NormBegin ==
    /\ nrm.pc = "entry"
    /\ nrm.mode # "NORM_NONE"
    /\ nrm' = [nrm EXCEPT !.pc = "scan", !.peak = FZero, !.i = 0]
    /\ UNCHANGED NotNrm

\* peak = lsp_max(peak, dsp::abs_max(dst->channel(i), dst->length()))
NormPeak ==
    /\ nrm.pc = "scan"
    /\ nrm.i < Len(nrm.dst)
    /\ LET cpeak == AbsMaxValue(nrm.dst[nrm.i + 1], Len(nrm.dst[nrm.i + 1]))
       IN  nrm' = [nrm EXCEPT !.peak = FMax(@, cpeak), !.i = @ + 1]
    /\ UNCHANGED NotNrm

\* if (peak < 1e-6) return STATUS_OK
NormSilent ==
    /\ nrm.pc = "scan"
    /\ nrm.i = Len(nrm.dst)
    /\ BelowSilence(nrm.peak)
    /\ nrm' = [nrm EXCEPT !.pc = "done"]
    /\ UNCHANGED NotNrm

\* The switch returns: nothing to do in this mode.
NormKeep ==
    /\ nrm.pc = "scan"
    /\ nrm.i = Len(nrm.dst)
    /\ ~BelowSilence(nrm.peak)
    /\ NormKeeps(nrm.mode, nrm.peak, nrm.gain)
    /\ nrm' = [nrm EXCEPT !.pc = "done"]
    /\ UNCHANGED NotNrm

\* float k = gain / peak and the head of the scaling loop
NormGain ==
    /\ nrm.pc = "scan"
    /\ nrm.i = Len(nrm.dst)
    /\ ~BelowSilence(nrm.peak)
    /\ ~NormKeeps(nrm.mode, nrm.peak, nrm.gain)
    /\ nrm' = [nrm EXCEPT !.pc = "scale",
                          !.k  = NormFactor(nrm.gain, nrm.peak),
                          !.i  = 0]
    /\ UNCHANGED NotNrm

\* dsp::mul_k2(dst->channel(i), k, dst->length())
NormScale ==
    /\ nrm.pc = "scale"
    /\ nrm.i < Len(nrm.dst)
    /\ nrm' = [nrm EXCEPT !.dst[nrm.i + 1] = MulK2(@, nrm.k), !.i = @ + 1]
    /\ UNCHANGED NotNrm

\* return STATUS_OK after the scaling loop
NormReturn ==
    /\ nrm.pc = "scale"
    /\ nrm.i = Len(nrm.dst)
    /\ nrm' = [nrm EXCEPT !.pc = "done"]
    /\ UNCHANGED NotNrm

\* The Samples of up to MaxNormSamples values.
NormSamples ==
    UNION { UNION { [1..c -> [1..n -> NormValues]] :
                      n \in 0..(MaxNormSamples \div c) } :
              c \in NormChannels }

InitNorm ==
    /\ \E dst \in NormSamples, gain \in NormGains, mode \in normalize_t :
          nrm = NormEntry(dst, gain, mode)
    /\ IdleNotNrm

NextNorm ==
    \/ NormNone
    \/ NormBegin
    \/ NormPeak
    \/ NormSilent
    \/ NormKeep
    \/ NormGain
    \/ NormScale
    \/ NormReturn

SpecNorm == InitNorm /\ [][NextNorm]_vars

(***************************************************************************)
(* Claims about normalize.                                                 *)
(***************************************************************************)

\* The values of all the channels of a Sample.
SampleValues(smp) ==
    UNION { {smp[c][n] : n \in 1..Len(smp[c])} : c \in 1..Len(smp) }

\* The absolute maximum over all the channels is p.
IsAbsMax(smp, p) ==
    /\ \E v \in SampleValues(smp) : FAbs(v) = p
    /\ \A v \in SampleValues(smp) : FLe(FAbs(v), p)

\* The global absolute peak of a Sample, 0 for an empty one.
PeakOf(smp) ==
    IF SampleValues(smp) = {} THEN FZero
    ELSE CHOOSE p \in {FAbs(v) : v \in SampleValues(smp)} : IsAbsMax(smp, p)

\* Every value of the Sample multiplied by k.
Rescaled(smp, k) ==
    [c \in 1..Len(smp) |-> [n \in 1..Len(smp[c]) |-> FMul(smp[c][n], k)]]

\* normalize(sample, 1.0, NORM_ALWAYS) has returned.
NormalizedAlways ==
    /\ nrm.pc = "done"
    /\ nrm.gain = FromInt(1)
    /\ nrm.mode = "NORM_ALWAYS"

\* C9 (as claimed): for a Sample with at least one non-zero value,
\* normalize(sample, 1.0, NORM_ALWAYS) leaves a buffer whose absolute
\* maximum over all channels equals 1.0.
C9_NormalizeToUnit ==
    (NormalizedAlways /\ \E v \in SampleValues(nrm.dst0) : ~IsZero(v)) =>
        IsAbsMax(nrm.dst, FromInt(1))

\* C9 (amended): when the peak on entry is at least 1e-6 the absolute
\* maximum afterwards is 1.0 or the float just below it; when the peak is
\* below 1e-6 the buffer is left as it was.
C9_NormalizeNearUnit ==
    NormalizedAlways =>
        IF BelowSilence(PeakOf(nrm.dst0))
        THEN nrm.dst = nrm.dst0
        ELSE \/ IsAbsMax(nrm.dst, FromInt(1))
             \/ IsAbsMax(nrm.dst, FPred(FromInt(1)))

C9_Witness ==
    /\ NormalizedAlways
    /\ nrm.dst0 = <<<<FromInt(-41)>>, <<FromInt(3)>>>>
    /\ nrm.dst[1][1] = FNum(-1, M24 - 1, -MANT_BITS)
    /\ IsAbsMax(nrm.dst, FPred(FromInt(1)))

\* C10: normalize leaves every sample unchanged when mode is NORM_NONE, when
\* mode is NORM_ABOVE and the global absolute peak is <= gain, and when mode
\* is NORM_BELOW and the peak is >= gain; a buffer it has changed was
\* multiplied by gain / peak, in NORM_ABOVE with peak > gain and in
\* NORM_BELOW with peak < gain.
C10_NormalizeModes ==
    nrm.pc = "done" =>
        LET peak == PeakOf(nrm.dst0)
            k    == FDiv(nrm.gain, peak)
        IN  /\ ( \/ nrm.mode = "NORM_NONE"
                 \/ nrm.mode = "NORM_ABOVE" /\ FLe(peak, nrm.gain)
                 \/ nrm.mode = "NORM_BELOW" /\ FLe(nrm.gain, peak) )
                  => nrm.dst = nrm.dst0
            /\ (nrm.mode = "NORM_ABOVE" /\ nrm.dst # nrm.dst0)
                  => (FLt(nrm.gain, peak) /\ nrm.dst = Rescaled(nrm.dst0, k))
            /\ (nrm.mode = "NORM_BELOW" /\ nrm.dst # nrm.dst0)
                  => (FLt(peak, nrm.gain) /\ nrm.dst = Rescaled(nrm.dst0, k))

C10_Witness ==
    /\ nrm.pc = "done"
    /\ nrm.mode = "NORM_BELOW"
    /\ nrm.gain = FromInt(3)
    /\ nrm.dst0 = <<<<FromInt(-1), FTiny>>>>
    /\ nrm.dst[1][1] = FromInt(-3)
    /\ nrm.dst # nrm.dst0

(***************************************************************************)
(* apply_gain(buf, ranges, threshold), the form over a list of regions     *)
(* (audio.cpp 976-994), called on the buffer and the regions of a finished *)
(* find_peaks with the same threshold (mtest/ranges.cpp 107-117).  The     *)
(* buffer becomes a buffer of floats, fp.tuned; fp.hits counts, for every  *)
(* sample, the calls of dsp::mul_k2 that covered it.  A span that leaves   *)
(* the buffer reads an arbitrary value there and its write is recorded in  *)
(* fp.wild.                                                                *)
(***************************************************************************)
\* What a read outside the buffer may return.
StrayValues == {FZero, FromInt(3)}

\* The C index i lies in the span of r->last - r->first samples that
\* starts at &buf[r->first].
InSpan(r, i) == SubSize(i, r.first) < SubSize(r.last, r.first)

\* The state of the call after a finished find_peaks.
ApplyGainEntry(st) ==
    [ pc        |-> "apply",
      buf       |-> st.buf,
      rms       |-> st.rms,
      threshold |-> st.threshold,
      count     |-> st.count,
      ranges    |-> st.ranges,
      oob       |-> st.oob,
      tuned     |-> [i \in 1..st.count |-> FromInt(st.buf[i])],
      hits      |-> [i \in 1..st.count |-> 0],
      wild      |-> FALSE,
      i         |-> 0 ]

\* One iteration of the loop of lines 978-991; g is what a read outside
\* the buffer returns.
ApplyGainIter(st, g) ==
    LET r      == st.ranges[st.i + 1]
        len    == SubSize(r.last, r.first)
        m      == Min2(len, st.count + 2)
        at(j)  == AddSize(r.first, j)
        span   == [j \in 1..m |->
                      IF InBuf(at(j - 1), st.count)
                      THEN st.tuned[at(j - 1) + 1] ELSE g]
        leaves == \E j \in 0..(m - 1) : ~InBuf(at(j), st.count)
        gain   == AbsMaxValue(span, m)
        k      == FDiv(FromInt(1), gain)
    IN  IF r.gain < st.threshold
        THEN [st EXCEPT !.i = @ + 1]
        ELSE [st EXCEPT
                 !.i     = @ + 1,
                 !.tuned = [i \in 1..st.count |->
                               IF InSpan(r, i - 1) THEN FMul(@[i], k)
                               ELSE @[i]],
                 !.hits  = [i \in 1..st.count |->
                               IF InSpan(r, i - 1) THEN @[i] + 1 ELSE @[i]],
                 !.wild  = @ \/ leaves]

ApplyGainCall ==
    /\ fp.pc = "done"
    /\ fp' = ApplyGainEntry(fp)
    /\ UNCHANGED NotFp

ApplyGainRange ==
    /\ fp.pc = "apply"
    /\ fp.i < Len(fp.ranges)
    /\ \E g \in StrayValues : fp' = ApplyGainIter(fp, g)
    /\ UNCHANGED NotFp

ApplyGainReturn ==
    /\ fp.pc = "apply"
    /\ fp.i = Len(fp.ranges)
    /\ fp' = [fp EXCEPT !.pc = "applied"]
    /\ UNCHANGED NotFp

NextApply ==
    \/ FindPeaksStep \/ FindPeaksFinish \/ FindPeaksNoMem
    \/ ApplyGainCall \/ ApplyGainRange \/ ApplyGainReturn

SpecApply == InitPeaks /\ [][NextApply]_vars

(***************************************************************************)
(* Claims about apply_gain over the regions of find_peaks.                 *)
(***************************************************************************)
\* The regions with gain >= threshold whose [first, last) holds the C
\* index i.
Owners(i) ==
    {k \in 1..Len(fp.ranges) :
        /\ fp.ranges[k].gain >= fp.threshold
        /\ fp.ranges[k].first <= i
        /\ i < fp.ranges[k].last}

\* C22: apply_gain divides every sample of each region whose gain is >=
\* threshold by that gain and leaves the samples of the other regions
\* unchanged; over the regions of find_peaks no sample is rescaled more
\* than once and nothing outside the buffer is touched.
C22_RegionsScaledOnce ==
    fp.pc = "applied" =>
        /\ ~fp.wild
        /\ \A i \in 1..fp.count :
               /\ fp.hits[i] <= 1
               /\ IF Owners(i - 1) = {}
                  THEN fp.tuned[i] = FromInt(fp.buf[i])
                  ELSE \E k \in Owners(i - 1) :
                          fp.tuned[i] = FDiv(FromInt(fp.buf[i]),
                                             FromInt(fp.ranges[k].gain))

(***************************************************************************)
(* calc_deviation, calc_gain_adjust, apply_gain (the Sample form) and      *)
(* adjust_gain: routines that combine the Sample src with a second Sample  *)
(* (rms, ref, gain, env: bin.arg) channel by channel into a private        *)
(* Sample that is swapped into the destination at the end.  The gain       *)
(* curve of adjust_gain is computed by dspu::DynamicProcessor, a library   *)
(* outside the program, and is any gain of CurveGains per sample.          *)
(***************************************************************************)
MaxBinSamples == 2

BinChannels == {1, 2}

BinValues == {FZero, FromInt(1), FromInt(-2)}

CurveGains == {FZero, FromInt(1), FromInt(3)}

BinOffsets == {-1, 0, 1}

BinKinds == {"calc_deviation", "calc_gain_adjust", "apply_gain", "adjust_gain"}

\* static constexpr float PRECISION = 2.5e-8f
PRECISION == FNum(1, 14073749, -49)

\* dsp::mul3(dst, a, b, count)
Mul3(a, b, count) == [k \in 1..count |-> FMul(a[k], b[k])]

\* calc_gain_adjust, lines 823-829: the ratio of the magnitudes, 1 where
\* the source is (nearly) zero.
GainRatio(vref, vsrc, count) ==
    [k \in 1..count |->
        IF FLe(FAbs(vsrc[k]), PRECISION) THEN FromInt(1)
        ELSE FDiv(FAbs(vref[k]), FAbs(vsrc[k]))]

\* calc_deviation, lines 787-789: the bounds of the loop.  rms->length() +
\* offset is computed in size_t.
DeviationHead(offset) == Max2(offset, 0)

DeviationTail(rlength, offset, length) ==
    Min2(ToSize(rlength + offset), length)

\* sbuf[k] of calc_deviation for a C index k: g when k is outside rms.
RmsAt(sbuf, k, g) == IF k >= 0 /\ k < Len(sbuf) THEN sbuf[k + 1] ELSE g

\* calc_deviation, lines 782-790: dsp::abs1, then the rectified difference
\* with the RMS shifted by offset.
Deviation(dbuf, sbuf, offset, g) ==
    LET head == DeviationHead(offset)
        tail == DeviationTail(Len(sbuf), offset, Len(dbuf))
    IN  [k \in 1..Len(dbuf) |->
            IF k - 1 >= head /\ k - 1 < tail
            THEN FMax(FSub(FAbs(dbuf[k]), RmsAt(sbuf, k - 1 - offset, g)),
                      FZero)
            ELSE FAbs(dbuf[k])]

\* Some read of sbuf in the loop of calc_deviation is outside rms.
DeviationLeavesBuf(dlength, rlength, offset) ==
    \E k \in DeviationHead(offset)..(DeviationTail(rlength, offset, dlength) - 1) :
        k - offset < 0 \/ k - offset >= rlength

\* The length of the private Sample: out.copy(src) in calc_deviation,
\* lsp_min of the two lengths in the other routines.
BinCount(kind, src, arg) ==
    IF kind = "calc_deviation" THEN Len(src[1])
    ELSE Min2(Len(arg[1]), Len(src[1]))

\* A destination argument: a Sample of the caller, or NULL.
Target(smp) == [null |-> FALSE, smp |-> smp]

NULL == [null |-> TRUE, smp |-> <<>>]

BinEntry(kind, src, arg, offset, dst, gain) ==
    [ pc     |-> "entry",
      kind   |-> kind,
      src    |-> src,
      arg    |-> arg,
      offset |-> offset,
      count  |-> 0,
      out    |-> <<>>,
      g      |-> <<>>,
      i      |-> 0,
      oob    |-> FALSE,
      res    |-> "STATUS_OK",
      dst    |-> dst.smp,
      gain   |-> gain.smp,
      dst_null  |-> dst.null,
      gain_null |-> gain.null,
      same      |-> FALSE ]

\* The call with dst being the Sample src itself: bin.src and bin.dst are
\* two views of one object.
BinEntryInPlace(kind, src, arg, offset) ==
    [BinEntry(kind, src, arg, offset, Target(src), NULL) EXCEPT !.same = TRUE]

\* The two Samples differ in their number of channels.
BinMismatch ==
    /\ bin.pc = "entry"
    /\ Len(bin.src) # Len(bin.arg)
    /\ bin' = [bin EXCEPT !.pc = "failed", !.res = "STATUS_BAD_ARGUMENTS"]
    /\ UNCHANGED NotBin

\* out.copy, out.init or g.init fails.
BinNoMem ==
    /\ bin.pc = "entry"
    /\ Len(bin.src) = Len(bin.arg)
    /\ bin' = [bin EXCEPT !.pc = "failed", !.res = "STATUS_NO_MEM"]
    /\ UNCHANGED NotBin

\* The private Samples: a copy of src in calc_deviation, zero-filled
\* channels of count samples in the other routines.
BinAlloc ==
    /\ bin.pc = "entry"
    /\ Len(bin.src) = Len(bin.arg)
    /\ LET count == BinCount(bin.kind, bin.src, bin.arg)
       IN  bin' = [bin EXCEPT
              !.pc    = "channel",
              !.count = count,
              !.out   = IF bin.kind = "calc_deviation" THEN bin.src
                        ELSE SampleInit(Len(bin.src), count),
              !.g     = IF bin.kind = "adjust_gain"
                        THEN SampleInit(Len(bin.src), count) ELSE <<>>,
              !.i     = 0]
    /\ UNCHANGED NotBin

\* calc_deviation, lines 779-791.
BinDeviation ==
    /\ bin.pc = "channel"
    /\ bin.kind = "calc_deviation"
    /\ bin.i < Len(bin.out)
    /\ \E g \in BinValues :
          bin' = [bin EXCEPT
             !.out[bin.i + 1] = Deviation(@, bin.arg[bin.i + 1], bin.offset, g),
             !.oob = @ \/ DeviationLeavesBuf(Len(bin.out[bin.i + 1]),
                                             Len(bin.arg[bin.i + 1]),
                                             bin.offset),
             !.i   = @ + 1]
    /\ UNCHANGED NotBin

\* calc_gain_adjust, lines 817-830.
BinGainAdjust ==
    /\ bin.pc = "channel"
    /\ bin.kind = "calc_gain_adjust"
    /\ bin.i < Len(bin.src)
    /\ bin' = [bin EXCEPT
          !.out[bin.i + 1] = GainRatio(bin.arg[bin.i + 1], bin.src[bin.i + 1],
                                       bin.count),
          !.i = @ + 1]
    /\ UNCHANGED NotBin

\* An apply_gain that writes every channel straight into the destination.
BinApplyGainInPlace ==
    /\ bin.pc = "channel"
    /\ bin.kind = "apply_gain"
    /\ bin.i < Len(bin.src)
    /\ LET out == [bin.out EXCEPT
                     ![bin.i + 1] = Mul3(bin.src[bin.i + 1],
                                         bin.arg[bin.i + 1], bin.count)]
       IN  bin' = [bin EXCEPT
              !.out = out,
              !.dst = out,
              !.src = IF bin.same THEN out ELSE @,
              !.i   = @ + 1]
    /\ UNCHANGED NotBin

\* apply_gain, lines 856-863.
BinApplyGain ==
    /\ bin.pc = "channel"
    /\ bin.kind = "apply_gain"
    /\ bin.i < Len(bin.src)
    /\ bin' = [bin EXCEPT
          !.out[bin.i + 1] = Mul3(bin.src[bin.i + 1], bin.arg[bin.i + 1],
                                  bin.count),
          !.i = @ + 1]
    /\ UNCHANGED NotBin

\* adjust_gain, lines 1032-1099: dp.process writes the gain curve of the
\* envelope into vgain, dsp::mul3 applies it to the source.
BinAdjustGain ==
    /\ bin.pc = "channel"
    /\ bin.kind = "adjust_gain"
    /\ bin.i < Len(bin.src)
    /\ \E vgain \in [1..bin.count -> CurveGains] :
          bin' = [bin EXCEPT
             !.g[bin.i + 1]   = vgain,
             !.out[bin.i + 1] = Mul3(vgain, bin.src[bin.i + 1], bin.count),
             !.i = @ + 1]
    /\ UNCHANGED NotBin

\* out.swap(dst) and, in adjust_gain, g.swap(gain), each only for a
\* destination that is not NULL; return STATUS_OK.
BinReturn ==
    /\ bin.pc = "channel"
    /\ bin.i = Len(bin.src)
    /\ bin' = [bin EXCEPT
          !.pc   = "done",
          !.dst  = IF bin.dst_null THEN @ ELSE bin.out,
          !.gain = IF bin.kind = "adjust_gain" /\ ~bin.gain_null
                   THEN bin.g ELSE @,
          !.out  = IF bin.dst_null THEN @ ELSE bin.dst,
          !.g    = IF bin.kind = "adjust_gain" /\ ~bin.gain_null
                   THEN bin.gain ELSE @,
          !.src  = IF bin.same THEN bin.out ELSE @]
    /\ UNCHANGED NotBin

\* The Samples of up to MaxBinSamples values.
BinSamples ==
    UNION { UNION { [1..c -> [1..n -> BinValues]] :
                      n \in 0..(MaxBinSamples \div c) } :
              c \in BinChannels }

InitBin ==
    /\ \E kind \in BinKinds, src \in BinSamples, arg \in BinSamples :
          \E offset \in BinOffsets, gain \in {NULL, Target(StaleSample)} :
              /\ kind = "calc_deviation" \/ offset = 0
              /\ kind = "adjust_gain" \/ gain.null
              /\ bin = BinEntry(kind, src, arg, offset, Target(StaleSample),
                                 gain)
    /\ IdleNotBin

NextBin ==
    \/ BinMismatch
    \/ BinNoMem
    \/ BinAlloc
    \/ BinDeviation
    \/ BinGainAdjust
    \/ BinApplyGain
    \/ BinAdjustGain
    \/ BinReturn

SpecBin == InitBin /\ [][NextBin]_vars

(***************************************************************************)
(* smash_amplitude.  The samples of src are small integers, on which the   *)
(* comparisons and differences of the scan are exact; the private copy out *)
(* holds floats.  in[j + 1] is read for every j < m, so the last iteration *)
(* of the scan reads one element past the channel: the value found there   *)
(* is any sample value.  sm.applied records, per sample, the multipliers   *)
(* pass 3 has applied to it.                                               *)
(***************************************************************************)
MaxSmashSamples == 4

SmashChannels == {1, 2}

SmashValues == {-2, 0, 1, 21}

\* 1.5f
FThreeHalves == FNum(1, 3 * Pow2(MANT_BITS - 2), 1 - MANT_BITS)

SmashThresholds == {FThreeHalves, FromInt(2)}

\* size_t step = src->sample_rate() / 100
SmashSteps == {1, 2}

\* A straight line from a to b.
InterpolateLinear(a, b, x) == FAdd(a, FMul(FSub(b, a), x))

\* interpolate(a, b, x): a + d * x * x * (3.0f - 2.0f * x), d = b - a
Interpolate(a, b, x) ==
    LET d == FSub(b, a)
    IN  FAdd(a, FMul(FMul(FMul(d, x), x),
                     FSub(FromInt(3), FMul(FromInt(2), x))))

\* The Sample as floats: out.copy(src).
AsFloats(smp) ==
    [c \in 1..Len(smp) |-> [k \in 1..Len(smp[c]) |-> FromInt(smp[c][k])]]

\* in[k] for a C index k of the channel being scanned (pass 3 has not
\* touched it yet): g past the end.
InAt(st, k, g) ==
    IF k < st.m THEN st.src[st.i + 1][k + 1] ELSE g

\* Lines 1567-1571: s, s_prev, s_next and the two differences at j.
IsPosPeak(st, j, g) ==
    LET s      == InAt(st, j, g)
        s_prev == IF j > 0 THEN InAt(st, j - 1, g) ELSE 0
        s_next == InAt(st, j + 1, g)
    IN  s_next - s < 0 /\ s - s_prev >= 0 /\ s > 0

IsNegPeak(st, j, g) ==
    LET s      == InAt(st, j, g)
        s_prev == IF j > 0 THEN InAt(st, j - 1, g) ELSE 0
        s_next == InAt(st, j + 1, g)
    IN  ~IsPosPeak(st, j, g) /\ s_next - s > 0 /\ s - s_prev <= 0 /\ s < 0

\* The block boundary of lines 1548-1565.
AtBoundary(st) == st.j % st.step = 0

\* One iteration of pass 1 (lines 1545-1594).
SmashScanIter(st, g) ==
    LET j    == st.j
        pos1 == IF AtBoundary(st) THEN Peak(0, -1) ELSE st.pos
        neg1 == IF AtBoundary(st) THEN Peak(0, 1) ELSE st.neg
        pk   == Peak(j, InAt(st, j, g))
        isP  == IsPosPeak(st, j, g)
        isN  == IsNegPeak(st, j, g)
    IN  [st EXCEPT
            !.p_peaks = IF AtBoundary(st) /\ st.pos.gain >= 0
                        THEN Append(@, st.pos) ELSE @,
            !.n_peaks = IF AtBoundary(st) /\ st.neg.gain <= 0
                        THEN Append(@, st.neg) ELSE @,
            !.peaks   = IF isP \/ isN THEN Append(@, pk) ELSE @,
            !.pos     = IF isP /\ pos1.gain < pk.gain THEN pk ELSE pos1,
            !.neg     = IF isN /\ neg1.gain > pk.gain THEN pk ELSE neg1,
            !.oob     = @ \/ j + 1 >= st.m,
            !.j       = j + 1]

\* float avg = (p->gain > 0.0f) ? p_avg : n_avg
AvgFor(st, p) == IF p.gain > 0 THEN st.p_avg ELSE st.n_avg

\* An egain that falls back to the typical level instead of 1.
TargetGainNoUnit(st, p) ==
    FDiv(FMul(AvgFor(st, p), st.threshold), FromInt(p.gain))

\* float egain = (fabsf(p->gain) > threshold * fabsf(avg))
\*                   ? avg*threshold / p->gain : 1.0f
TargetGain(st, p) ==
    IF FLt(FMul(st.threshold, FAbs(AvgFor(st, p))), FAbs(FromInt(p.gain)))
    THEN FDiv(FMul(AvgFor(st, p), st.threshold), FromInt(p.gain))
    ELSE FromInt(1)

\* The multiplier of the sample k of the span [idx, index) walked from
\* gain to egain (lines 1622-1625).
SpanGain(gain, egain, idx, index, k) ==
    Interpolate(gain, egain,
                FMul(FromInt(k - idx), FDiv(FromInt(1), FromInt(index - idx))))

\* A walk that never moves the start of the span.
SmashWalkIterFromStart(st) ==
    LET p     == st.peaks[st.j + 1]
        egain == TargetGain(st, p)
        c     == st.i + 1
        hit(k) == k - 1 >= st.idx /\ k - 1 < p.index
        mul(k) == SpanGain(st.gain, egain, st.idx, p.index, k - 1)
    IN  [st EXCEPT
            !.out[c]     = [k \in 1..st.m |->
                               IF hit(k) THEN FMul(@[k], mul(k)) ELSE @[k]],
            !.applied[c] = [k \in 1..st.m |->
                               IF hit(k) THEN Append(@[k], mul(k)) ELSE @[k]],
            !.gain       = egain,
            !.j          = st.j + 1]

\* One iteration of pass 3 (lines 1617-1629).
SmashWalkIter(st) ==
    LET p     == st.peaks[st.j + 1]
        egain == TargetGain(st, p)
        c     == st.i + 1
        hit(k) == k - 1 >= st.idx /\ k - 1 < p.index
        mul(k) == SpanGain(st.gain, egain, st.idx, p.index, k - 1)
    IN  [st EXCEPT
            !.out[c]     = [k \in 1..st.m |->
                               IF hit(k) THEN FMul(@[k], mul(k)) ELSE @[k]],
            !.applied[c] = [k \in 1..st.m |->
                               IF hit(k) THEN Append(@[k], mul(k)) ELSE @[k]],
            !.idx        = p.index,
            !.gain       = egain,
            !.j          = st.j + 1]

SmashEntry(src, threshold, step, dst) ==
    [ pc        |-> "entry",
      src       |-> src,
      threshold |-> threshold,
      step      |-> step,
      out       |-> <<>>,
      i         |-> 0,
      j         |-> 0,
      m         |-> Len(src[1]),
      pos       |-> Peak(0, -1),
      neg       |-> Peak(0, 1),
      peaks     |-> <<>>,
      p_peaks   |-> <<>>,
      n_peaks   |-> <<>>,
      p_avg     |-> FZero,
      n_avg     |-> FZero,
      idx       |-> 0,
      gain      |-> FromInt(1),
      oob       |-> FALSE,
      applied   |-> [c \in 1..Len(src) |-> [k \in 1..Len(src[1]) |-> <<>>]],
      dst       |-> dst,
      same      |-> FALSE ]

\* smash_amplitude(&out, &out, threshold): sm.src and sm.dst are two views
\* of one object.
SmashEntryInPlace(src, threshold, step) ==
    [SmashEntry(src, threshold, step, AsFloats(src)) EXCEPT !.same = TRUE]

\* out.copy(src)
SmashCopy ==
    /\ sm.pc = "entry"
    /\ sm' = [sm EXCEPT !.pc = "channel", !.out = AsFloats(sm.src), !.i = 0]
    /\ UNCHANGED NotSm

\* The head of the channel loop (lines 1533-1543).
SmashChannel ==
    /\ sm.pc = "channel"
    /\ sm.i < Len(sm.src)
    /\ sm' = [sm EXCEPT
          !.pc      = "scan",
          !.pos     = Peak(0, -1),
          !.neg     = Peak(0, 1),
          !.p_peaks = <<>>,
          !.n_peaks = <<>>,
          !.peaks   = <<>>,
          !.j       = 0]
    /\ UNCHANGED NotSm

\* Pass 1, one sample.
SmashScan ==
    /\ sm.pc = "scan"
    /\ sm.j < sm.m
    /\ \E g \in SmashValues : sm' = SmashScanIter(sm, g)
    /\ UNCHANGED NotSm

\* Pass 2 and the terminal point (lines 1596-1609); the pointers may be
\* sorted in any order among equal gains.
SmashMedian ==
    /\ sm.pc = "scan"
    /\ sm.j = sm.m
    /\ \E pme \in SortedViews(sm.p_peaks, Len(sm.p_peaks)) :
          \E nme \in SortedViews(sm.n_peaks, Len(sm.n_peaks)) :
              sm' = [sm EXCEPT
                 !.pc    = "walk",
                 !.p_avg = MedianOf(sm.p_peaks, pme),
                 !.n_avg = MedianOf(sm.n_peaks, nme),
                 !.peaks = Append(@, Peak(sm.m, 1)),
                 !.idx   = 0,
                 !.gain  = FromInt(1),
                 !.j     = 0]
    /\ UNCHANGED NotSm

\* Pass 3, one control point.
SmashWalk ==
    /\ sm.pc = "walk"
    /\ sm.j < Len(sm.peaks)
    /\ sm' = SmashWalkIter(sm)
    /\ UNCHANGED NotSm

\* The end of the channel loop body: ++i.
SmashNextChannel ==
    /\ sm.pc = "walk"
    /\ sm.j = Len(sm.peaks)
    /\ sm' = [sm EXCEPT !.pc = "channel", !.i = @ + 1]
    /\ UNCHANGED NotSm

\* A failure that hands the private Sample over to the destination.
SmashNoMemCommits ==
    /\ sm.pc = "scan"
    /\ sm' = [sm EXCEPT !.pc = "failed", !.dst = sm.out, !.out = sm.dst]
    /\ UNCHANGED NotSm

\* out.copy fails, a list cannot grow, or median_value returns false.
SmashNoMem ==
    /\ \/ sm.pc = "entry"
       \/ /\ sm.pc = "scan"
          /\ sm.j < sm.m
          /\ \E g \in SmashValues :
                LET n == SmashScanIter(sm, g)
                IN  \/ n.peaks # sm.peaks
                    \/ n.p_peaks # sm.p_peaks
                    \/ n.n_peaks # sm.n_peaks
       \/ sm.pc = "scan" /\ sm.j = sm.m
    /\ sm' = [sm EXCEPT !.pc = "failed", !.out = <<>>, !.peaks = <<>>,
                         !.p_peaks = <<>>, !.n_peaks = <<>>]
    /\ UNCHANGED NotSm

\* out.swap(dst); return STATUS_OK
SmashReturn ==
    /\ sm.pc = "channel"
    /\ sm.i = Len(sm.src)
    /\ sm' = [sm EXCEPT !.pc = "done", !.dst = sm.out, !.out = sm.dst,
                         !.src = IF sm.same THEN sm.out ELSE @]
    /\ UNCHANGED NotSm

\* The Samples of up to MaxSmashSamples values.
SmashSamples ==
    UNION { UNION { [1..c -> [1..n -> SmashValues]] :
                      n \in 0..(MaxSmashSamples \div c) } :
              c \in SmashChannels }

InitSmash ==
    /\ \E src \in SmashSamples, threshold \in SmashThresholds :
          \E step \in SmashSteps :
              sm = SmashEntry(src, threshold, step, StaleSample)
    /\ IdleNotSm

NextSmash ==
    \/ SmashCopy
    \/ SmashChannel
    \/ SmashScan
    \/ SmashMedian
    \/ SmashWalk
    \/ SmashNextChannel
    \/ SmashNoMem
    \/ SmashReturn

SpecSmash == InitSmash /\ [][NextSmash]_vars

(***************************************************************************)
(* Pass 3 of smash_amplitude for one channel, sample by sample             *)
(* (audio.cpp 1615-1631).  The control points and the target gain egain    *)
(* that lines 1622-1623 compute for each of them are the inputs; the       *)
(* inner loop applies one multiplier per step.                             *)
(***************************************************************************)

\* 1.0f, and the quotients 1.0f / 3.0f and 1.5f / 21.0f.
SpanGains ==
    {FromInt(1), FDiv(FromInt(1), FromInt(3)),
     FDiv(FThreeHalves, FromInt(21))}

\* p->index of the first control point.
SpanFirst == {0, 2}

\* The distance from a control point to the next one.
SpanLengths == {1, 2, 4933}

ControlPoint(index, egain) == [index |-> index, egain |-> egain]

\* One or two control points of increasing index.
SpanPoints ==
    { <<ControlPoint(i, a)>> : i \in SpanFirst, a \in SpanGains }
    \cup { <<ControlPoint(i, a), ControlPoint(i + n, b)>> :
              i \in SpanFirst, n \in SpanLengths,
              a \in SpanGains, b \in SpanGains }

\* size_t idx = 0; float gain = 1.0f
SpanEntry(points) ==
    [ pc     |-> "point",
      points |-> points,
      j      |-> 0,
      idx    |-> 0,
      gain   |-> FromInt(1),
      k      |-> 0,
      mul    |-> <<>>,
      prev   |-> <<>> ]

\* The head of the loop over the control points: p, egain and delta.
SpanPoint ==
    /\ sp.pc = "point"
    /\ sp.j < Len(sp.points)
    /\ sp' = [sp EXCEPT !.pc = "sample", !.k = sp.idx,
                         !.mul = <<>>, !.prev = <<>>]
    /\ UNCHANGED NotSp

\* in[k] *= interpolate(gain, egain, (k - idx) * delta)
SpanSample ==
    /\ sp.pc = "sample"
    /\ sp.k < sp.points[sp.j + 1].index
    /\ sp' = [sp EXCEPT
          !.mul  = <<SpanGain(sp.gain, sp.points[sp.j + 1].egain,
                              sp.idx, sp.points[sp.j + 1].index, sp.k)>>,
          !.prev = sp.mul,
          !.k    = sp.k + 1]
    /\ UNCHANGED NotSp

\* idx = p->index; gain = egain; ++j
SpanAdvance ==
    /\ sp.pc = "sample"
    /\ sp.k >= sp.points[sp.j + 1].index
    /\ sp' = [sp EXCEPT
          !.pc   = "point",
          !.idx  = sp.points[sp.j + 1].index,
          !.gain = sp.points[sp.j + 1].egain,
          !.j    = sp.j + 1]
    /\ UNCHANGED NotSp

SpanDone ==
    /\ sp.pc = "point"
    /\ sp.j = Len(sp.points)
    /\ sp' = [sp EXCEPT !.pc = "done"]
    /\ UNCHANGED NotSp

InitSpan ==
    /\ \E points \in SpanPoints : sp = SpanEntry(points)
    /\ IdleNotSp

NextSpan ==
    \/ SpanPoint
    \/ SpanSample
    \/ SpanAdvance
    \/ SpanDone

SpecSpan == InitSpan /\ [][NextSpan]_vars

(***************************************************************************)
(* estimate_envelope (audio.cpp 430-537) with weight = NO_WEIGHT, where    *)
(* the filter passes the samples through.  One action per source channel.  *)
(***************************************************************************)
MaxEnvSamples == 3

EnvChannels == {1, 2}

EnvValues == {-2, 0, 1, 3}

EnvPeriods == {1, 2, 3}

\* size_t dlength = slength + (period - slength % period) % period
EnvLength(slength, period) ==
    slength + ((period - (slength % period)) % period)

\* tbuf: the filtered channel followed by the filtered zero padding.
Padded(x, dlength) ==
    [k \in 1..dlength |-> IF k <= Len(x) THEN FromInt(x[k]) ELSE FZero]

\* dsp::min_index(&buf[j], period): the first smallest sample of the block.
RECURSIVE MinIndexFrom(_, _, _, _, _)
MinIndexFrom(buf, j, period, k, best) ==
    IF k >= period THEN best
    ELSE MinIndexFrom(buf, j, period, k + 1,
             IF FLt(buf[j + k + 1], buf[j + best + 1]) THEN k ELSE best)

MinIndex(buf, j, period) == MinIndexFrom(buf, j, period, 1, 0)

\* dsp::max_index(&buf[j], period): the first largest sample of the block.
RECURSIVE MaxIndexFrom(_, _, _, _, _)
MaxIndexFrom(buf, j, period, k, best) ==
    IF k >= period THEN best
    ELSE MaxIndexFrom(buf, j, period, k + 1,
             IF FLt(buf[j + best + 1], buf[j + k + 1]) THEN k ELSE best)

MaxIndex(buf, j, period) == MaxIndexFrom(buf, j, period, 1, 0)

\* Step 1 (lines 509-519) from the block at j on: the negative minimum of
\* every block goes to the track when positive is FALSE, the positive
\* maximum when it is TRUE.
RECURSIVE BlockPeaks(_, _, _, _, _)
BlockPeaks(track, tbuf, period, positive, j) ==
    IF j >= Len(tbuf) THEN track
    ELSE LET at == IF positive THEN j + MaxIndex(tbuf, j, period)
                   ELSE j + MinIndex(tbuf, j, period)
             v  == tbuf[at + 1]
             on == IF positive THEN FLt(FZero, v) ELSE FLt(v, FZero)
         IN  BlockPeaks(IF on THEN [track EXCEPT ![at + 1] = v] ELSE track,
                        tbuf, period, positive, j + period)

\* dsp::smooth_cubic_linear(&dst[at], start, stop, count): count values
\* start + dy * x * x * (3 - 2x), x = i / (count + 1), from dst[at] on.
SmoothCubicLinear(dst, at, start, stop, count) ==
    LET dy == FSub(stop, start)
        nx == FDiv(FromInt(1), FromInt(count + 1))
        y(i) == LET x == FMul(FromInt(i), nx)
                IN  FAdd(start,
                         FMul(FMul(FMul(dy, x), x),
                              FSub(FromInt(3), FMul(FromInt(2), x))))
    IN  [k \in 1..Len(dst) |->
            IF k - 1 >= at /\ k - 1 < at + count THEN y(k - 1 - at)
            ELSE dst[k]]

\* The loop of approximate_envelope (lines 415-423) from i on.
RECURSIVE EnvelopeFrom(_, _, _, _)
EnvelopeFrom(dst, src, i, ppeak) ==
    IF i >= Len(src)
    THEN \* lines 426-427
         IF ppeak < Len(src)
         THEN SmoothCubicLinear(dst, ppeak, src[ppeak + 1], src[Len(src)],
                                Len(src) - ppeak - 1)
         ELSE dst
    ELSE IF src[i + 1] = FZero \/ i <= ppeak
         THEN EnvelopeFrom(dst, src, i + 1, ppeak)
         ELSE EnvelopeFrom(
                  SmoothCubicLinear(dst, ppeak, src[ppeak + 1], src[i + 1],
                                    i - ppeak),
                  src, i + 1, i)

\* approximate_envelope(dst, src, count)
ApproximateEnvelope(dst, src) == EnvelopeFrom(dst, src, 0, 0)

\* dsp::lr_to_mid: (l + r) * 0.5f
LrToMid(l, r) == [k \in 1..Len(l) |-> FMul(FAdd(l[k], r[k]), FHalf)]

\* dsp::sub3(out_result, sbuf, out_delta, count)
Sub3(dst, a, b, count) ==
    [k \in 1..Len(dst) |->
        IF k <= count THEN FSub(FromInt(a[k]), b[k]) ELSE dst[k]]

\* The only element of a set of one element.
Only(S) == CHOOSE v \in S : TRUE

\* Lines 525-529: the mean of the two smoothed tracks and the result.
EnvelopeResult(sbuf, dlength, ppeak, npeak, psmooth, nsmooth) ==
    LET zero == [k \in 1..dlength |-> FZero]
    IN  Only({ <<ppeak, npeak, psmooth, nsmooth, delta,
                 Sub3(zero, sbuf, delta, Min2(dlength, Len(sbuf)))>> :
                 delta \in {LrToMid(psmooth, nsmooth)} })

\* Lines 521-523: the two tracks are smoothed.
EnvelopeSmooth(sbuf, dlength, ppeak, npeak) ==
    LET zero == [k \in 1..dlength |-> FZero]
    IN  Only({ EnvelopeResult(sbuf, dlength, ppeak, npeak, psmooth, nsmooth) :
                 psmooth \in {ApproximateEnvelope(zero, ppeak)},
                 nsmooth \in {ApproximateEnvelope(zero, npeak)} })

\* The six channels that the source channel sbuf yields (lines 491-529),
\* zeroes being what out.init left in them.
EnvelopeOf(sbuf, period, dlength) ==
    LET zero == [k \in 1..dlength |-> FZero]
        tbuf == Padded(sbuf, dlength)
    IN  Only({ EnvelopeSmooth(sbuf, dlength, ppeak, npeak) :
                 ppeak \in {BlockPeaks(zero, tbuf, period, TRUE, 0)},
                 npeak \in {BlockPeaks(zero, tbuf, period, FALSE, 0)} })

EnvEntry(src, period, dst) ==
    [ pc      |-> "alloc",
      src     |-> src,
      period  |-> period,
      dlength |-> EnvLength(Len(src[1]), period),
      out     |-> <<>>,
      i       |-> 0,
      dst     |-> dst ]

\* tmp.init and out.init (lines 476-487)
EnvAlloc ==
    /\ env.pc = "alloc"
    /\ env' = [env EXCEPT
          !.pc  = "channel",
          !.out = SampleInit(6 * Len(env.src), env.dlength)]
    /\ UNCHANGED NotEnv

\* f.init, tmp.init or out.init fails: STATUS_NO_MEM
EnvNoMem ==
    /\ env.pc = "alloc"
    /\ env' = [env EXCEPT !.pc = "failed"]
    /\ UNCHANGED NotEnv

\* One iteration of the channel loop (lines 489-530).
EnvChannel ==
    /\ env.pc = "channel"
    /\ env.i < Len(env.src)
    /\ LET six == EnvelopeOf(env.src[env.i + 1], env.period, env.dlength)
       IN  env' = [env EXCEPT
              !.out = [c \in 1..Len(env.out) |->
                          IF c > 6 * env.i /\ c <= 6 * env.i + 6
                          THEN six[c - 6 * env.i] ELSE env.out[c]],
              !.i   = env.i + 1]
    /\ UNCHANGED NotEnv

\* out.swap(dst); return STATUS_OK
EnvReturn ==
    /\ env.pc = "channel"
    /\ env.i = Len(env.src)
    /\ env' = [env EXCEPT !.pc = "done", !.dst = env.out, !.out = env.dst]
    /\ UNCHANGED NotEnv

EnvSamples ==
    UNION { UNION { [1..c -> [1..n -> EnvValues]] :
                      n \in 0..(MaxEnvSamples \div c) } :
              c \in EnvChannels }

InitEnv ==
    /\ \E src \in EnvSamples, period \in EnvPeriods :
          env = EnvEntry(src, period, StaleSample)
    /\ IdleNotEnv

NextEnv ==
    \/ EnvAlloc
    \/ EnvNoMem
    \/ EnvChannel
    \/ EnvReturn

SpecEnv == InitEnv /\ [][NextEnv]_vars

(***************************************************************************)
(* parse_cmdline (cmdline.cpp 244-398).  argv is a sequence of strings,    *)
(* argv[0] first; the option hash maps a long option name to its value.    *)
(* expr::Tokenizer is a library outside the repository: the tokens it      *)
(* yields for a value text are listed by Tokenize, both outcomes being     *)
(* kept for a text with a leading sign.                                    *)
(***************************************************************************)

\* const option_t options[] (lines 51-65): s_short, s_long, s_flag.
Option(s_short, s_long) ==
    [s_short |-> s_short, s_long |-> s_long, s_flag |-> FALSE]

OptionTable ==
    << Option("-dr", "--dynamic-range"), Option("-ep", "--eliminate-peaks"),
       Option("-if", "--in-file"),       Option("-k",  "--knee"),
       Option("-n",  "--normalize"),     Option("-ng", "--norm-gain"),
       Option("-np", "--num-passes"),    Option("-of", "--out-file"),
       Option("-r",  "--reactivity"),    Option("-sr", "--srate"),
       Option("-wf", "--weighting") >>

Rows(table) == {table[n] : n \in 1..Len(table)}

ShortNames == {p.s_short : p \in Rows(OptionTable)}

LongNames == {p.s_long : p \in Rows(OptionTable)}

Flag(name, value) == [name |-> name, value |-> value]

\* const cfg_flag_t weighting_flags[] (lines 67-76)
weighting_flags ==
    << Flag("none", "NO_WEIGHT"), Flag("a", "A_WEIGHT"),
       Flag("b", "B_WEIGHT"),     Flag("c", "A_WEIGHT"),
       Flag("d", "B_WEIGHT"),     Flag("k", "K_WEIGHT") >>

\* const cfg_flag_t normalize_flags[] (lines 78-85)
normalize_flags ==
    << Flag("none", "NORM_NONE"),   Flag("above", "NORM_ABOVE"),
       Flag("below", "NORM_BELOW"), Flag("always", "NORM_ALWAYS") >>

\* The value texts of the model.
NumberTexts == {"8", "1", "0", "-1", "0.5", "8 8"}

WordTexts ==
    {"none", "None", "a", "A", "b", "c", "C", "d", "k", "K",
     "above", "ALWAYS", "e"}

FileTexts == {"in.wav", "out.wav"}

\* LSPString::tolower on the texts of the model.
ToLower(text) ==
    CASE text = "None"   -> "none"
      [] text = "A"      -> "a"
      [] text = "C"      -> "c"
      [] text = "K"      -> "k"
      [] text = "ALWAYS" -> "always"
      [] OTHER           -> text

\* opt[0] == '-' && opt[1] == '-'
DoubleDashed(opt) == opt \in LongNames \cup {"--help", "--bogus"}

\* Lines 256-261: a short name is replaced by its long name.
Alias(opt) ==
    IF opt \in ShortNames
    THEN (CHOOSE p \in Rows(OptionTable) : p.s_short = opt).s_long
    ELSE opt

Token(tt, v, eof) == [tt |-> tt, v |-> v, eof |-> eof]

\* The first token of the text, its value, and whether TT_EOF follows.
Tokenize(text) ==
    CASE text = "8"   -> {Token("TT_IVALUE", 8, TRUE)}
      [] text = "1"   -> {Token("TT_IVALUE", 1, TRUE)}
      [] text = "0"   -> {Token("TT_IVALUE", 0, TRUE)}
      [] text = "-1"  -> {Token("TT_IVALUE", -1, TRUE),
                          Token("TT_SUB", 0, FALSE)}
      [] text = "0.5" -> {Token("TT_FVALUE", FHalf, TRUE)}
      [] text = "8 8" -> {Token("TT_IVALUE", 8, FALSE)}
      [] OTHER        -> {Token("TT_BAREWORD", 0, TRUE)}

Parsed(res, v) == [res |-> res, v |-> v]

\* parse_cmdline_int (lines 122-149) on the tokens t.
ParseInt(t) ==
    IF t.tt = "TT_IVALUE" /\ t.eof
    THEN Parsed("STATUS_OK", t.v)
    ELSE Parsed("STATUS_INVALID_VALUE", 0)

\* parse_cmdline_float (lines 151-182) on the tokens t.
ParseFloat(t) ==
    IF t.tt = "TT_IVALUE" /\ t.eof THEN Parsed("STATUS_OK", FromInt(t.v))
    ELSE IF t.tt = "TT_FVALUE" /\ t.eof THEN Parsed("STATUS_OK", t.v)
    ELSE Parsed("STATUS_INVALID_VALUE", FZero)

\* The loop of parse_cmdline_enum (lines 230-237) from the flag n on.
RECURSIVE FindFlag(_, _, _)
FindFlag(in, flags, n) ==
    IF n > Len(flags) THEN Parsed("STATUS_INVALID_VALUE", "")
    ELSE IF in = flags[n].name THEN Parsed("STATUS_OK", flags[n].value)
    ELSE FindFlag(in, flags, n + 1)

\* parse_cmdline_enum (lines 219-242)
ParseEnum(val, flags) == FindFlag(ToLower(val), flags, 1)

\* dspu::db_to_gain on the values of the model: 10^(db/20) as a float.
DbToGain(db) ==
    CASE db = FromInt(8)  -> FNum(1, 10535615, -22)
      [] db = FromInt(1)  -> FNum(1, 9412173, -23)
      [] db = FromInt(-1) -> FNum(1, 14952709, -24)
      [] db = FHalf       -> FNum(1, 8885664, -23)
      [] OTHER            -> FromInt(1)

\* config_t::config_t() (config.cpp 28-36).  The constructor of the
\* snapshot sets no normalization mode, normalization gain or peak
\* threshold: they are arguments here.
Config(enNormalize, fNormGain, fPeakThresh) ==
    [ nSampleRate |-> -1,
      sInFile     |-> "",
      sOutFile    |-> "",
      nPasses     |-> 1,
      fReactivity |-> FromInt(40),
      fRange      |-> FromInt(6),
      fKnee       |-> FromInt(3),
      enWeighting |-> "NO_WEIGHT",
      enNormalize |-> enNormalize,
      fNormGain   |-> fNormGain,
      fPeakThresh |-> fPeakThresh ]

CmdEntry(argv, cfg) ==
    [ pc      |-> "read",
      argv    |-> argv,
      argc    |-> Len(argv),
      i       |-> 1,
      options |-> <<>>,
      cfg     |-> cfg,
      res     |-> "",
      at      |-> "" ]

\* return res, from the stage cl.pc
CmdFail(res) == [cl EXCEPT !.pc = "returned", !.res = res, !.at = cl.pc]

\* options.get(name) != NULL
Given(name) == name \in DOMAIN cl.options

\* One iteration of the loop of lines 251-310.
CmdArg ==
    /\ cl.pc = "read"
    /\ cl.i < cl.argc
    /\ LET opt == Alias(cl.argv[cl.i + 1])
           i   == cl.i + 1
       IN  cl' =
             IF opt = "--help" THEN CmdFail("STATUS_SKIP")
             ELSE IF ~DoubleDashed(opt) THEN CmdFail("STATUS_BAD_ARGUMENTS")
             ELSE IF opt \notin LongNames THEN CmdFail("STATUS_BAD_ARGUMENTS")
             ELSE IF i >= cl.argc THEN CmdFail("STATUS_BAD_ARGUMENTS")
             ELSE IF Given(opt) THEN CmdFail("STATUS_BAD_ARGUMENTS")
             ELSE [cl EXCEPT !.options = (opt :> cl.argv[i + 1]) @@ @,
                             !.i = i + 1]
    /\ UNCHANGED NotCl

\* options.create fails (lines 295-299).
CmdArgNoMem ==
    /\ cl.pc = "read"
    /\ cl.i + 1 < cl.argc
    /\ Alias(cl.argv[cl.i + 1]) \in LongNames
    /\ ~Given(Alias(cl.argv[cl.i + 1]))
    /\ cl' = CmdFail("STATUS_NO_MEM")
    /\ UNCHANGED NotCl

\* Lines 312-327: the mandatory parameters.
CmdFiles ==
    /\ cl.pc = "read"
    /\ cl.i >= cl.argc
    /\ cl' =
         IF ~Given("--in-file") \/ ~Given("--out-file")
         THEN CmdFail("STATUS_BAD_ARGUMENTS")
         ELSE [cl EXCEPT !.pc = "srate",
                         !.cfg.sInFile = cl.options["--in-file"],
                         !.cfg.sOutFile = cl.options["--out-file"]]
    /\ UNCHANGED NotCl

\* Lines 330-334
CmdSrate ==
    /\ cl.pc = "srate"
    /\ \/ ~Given("--srate") /\ cl' = [cl EXCEPT !.pc = "range"]
       \/ /\ Given("--srate")
          /\ \E t \in Tokenize(cl.options["--srate"]) :
                cl' = IF ParseInt(t).res # "STATUS_OK"
                      THEN CmdFail(ParseInt(t).res)
                      ELSE [cl EXCEPT !.pc = "range",
                                      !.cfg.nSampleRate = ParseInt(t).v]
    /\ UNCHANGED NotCl

\* Lines 335-344
CmdRange ==
    /\ cl.pc = "range"
    /\ \/ ~Given("--dynamic-range") /\ cl' = [cl EXCEPT !.pc = "knee"]
       \/ /\ Given("--dynamic-range")
          /\ \E t \in Tokenize(cl.options["--dynamic-range"]) :
                cl' = IF ParseFloat(t).res # "STATUS_OK"
                      THEN CmdFail(ParseFloat(t).res)
                      ELSE IF FLe(ParseFloat(t).v, FZero)
                      THEN [CmdFail("STATUS_BAD_ARGUMENTS") EXCEPT
                               !.cfg.fRange = ParseFloat(t).v]
                      ELSE [cl EXCEPT !.pc = "knee",
                                      !.cfg.fRange = ParseFloat(t).v]
    /\ UNCHANGED NotCl

\* Lines 345-354: the test reads cfg->fRange.
CmdKnee ==
    /\ cl.pc = "knee"
    /\ \/ ~Given("--knee") /\ cl' = [cl EXCEPT !.pc = "passes"]
       \/ /\ Given("--knee")
          /\ \E t \in Tokenize(cl.options["--knee"]) :
                cl' = IF ParseFloat(t).res # "STATUS_OK"
                      THEN CmdFail(ParseFloat(t).res)
                      ELSE IF FLt(cl.cfg.fRange, FZero)
                      THEN [CmdFail("STATUS_BAD_ARGUMENTS") EXCEPT
                               !.cfg.fKnee = ParseFloat(t).v]
                      ELSE [cl EXCEPT !.pc = "passes",
                                      !.cfg.fKnee = ParseFloat(t).v]
    /\ UNCHANGED NotCl

\* Lines 355-364
CmdPasses ==
    /\ cl.pc = "passes"
    /\ \/ ~Given("--num-passes") /\ cl' = [cl EXCEPT !.pc = "reactivity"]
       \/ /\ Given("--num-passes")
          /\ \E t \in Tokenize(cl.options["--num-passes"]) :
                cl' = IF ParseInt(t).res # "STATUS_OK"
                      THEN CmdFail(ParseInt(t).res)
                      ELSE IF ParseInt(t).v <= 0
                      THEN [CmdFail("STATUS_BAD_ARGUMENTS") EXCEPT
                               !.cfg.nPasses = ParseInt(t).v]
                      ELSE [cl EXCEPT !.pc = "reactivity",
                                      !.cfg.nPasses = ParseInt(t).v]
    /\ UNCHANGED NotCl

\* Lines 365-374
CmdReactivity ==
    /\ cl.pc = "reactivity"
    /\ \/ ~Given("--reactivity") /\ cl' = [cl EXCEPT !.pc = "weighting"]
       \/ /\ Given("--reactivity")
          /\ \E t \in Tokenize(cl.options["--reactivity"]) :
                cl' = IF ParseFloat(t).res # "STATUS_OK"
                      THEN CmdFail(ParseFloat(t).res)
                      ELSE IF FLt(ParseFloat(t).v, FZero)
                      THEN [CmdFail("STATUS_BAD_ARGUMENTS") EXCEPT
                               !.cfg.fReactivity = ParseFloat(t).v]
                      ELSE [cl EXCEPT !.pc = "weighting",
                                      !.cfg.fReactivity = ParseFloat(t).v]
    /\ UNCHANGED NotCl

\* Lines 375-379
CmdWeighting ==
    /\ cl.pc = "weighting"
    /\ cl' =
         IF ~Given("--weighting") THEN [cl EXCEPT !.pc = "normalize"]
         ELSE LET r == ParseEnum(cl.options["--weighting"], weighting_flags)
              IN  IF r.res # "STATUS_OK" THEN CmdFail(r.res)
                  ELSE [cl EXCEPT !.pc = "normalize",
                                  !.cfg.enWeighting = r.v]
    /\ UNCHANGED NotCl

\* Lines 380-384
CmdNormalize ==
    /\ cl.pc = "normalize"
    /\ cl' =
         IF ~Given("--normalize") THEN [cl EXCEPT !.pc = "normgain"]
         ELSE LET r == ParseEnum(cl.options["--normalize"], normalize_flags)
              IN  IF r.res # "STATUS_OK" THEN CmdFail(r.res)
                  ELSE [cl EXCEPT !.pc = "normgain",
                                  !.cfg.enNormalize = r.v]
    /\ UNCHANGED NotCl

\* Lines 385-389
CmdNormGain ==
    /\ cl.pc = "normgain"
    /\ \/ ~Given("--norm-gain") /\ cl' = [cl EXCEPT !.pc = "peaks"]
       \/ /\ Given("--norm-gain")
          /\ \E t \in Tokenize(cl.options["--norm-gain"]) :
                cl' = IF ParseFloat(t).res # "STATUS_OK"
                      THEN CmdFail(ParseFloat(t).res)
                      ELSE [cl EXCEPT !.pc = "peaks",
                                      !.cfg.fNormGain = ParseFloat(t).v]
    /\ UNCHANGED NotCl

\* Lines 390-397
CmdPeaks ==
    /\ cl.pc = "peaks"
    /\ \/ /\ ~Given("--eliminate-peaks")
          /\ cl' = [cl EXCEPT !.pc = "done", !.res = "STATUS_OK"]
       \/ /\ Given("--eliminate-peaks")
          /\ \E t \in Tokenize(cl.options["--eliminate-peaks"]) :
                cl' = IF ParseFloat(t).res # "STATUS_OK"
                      THEN CmdFail(ParseFloat(t).res)
                      ELSE [cl EXCEPT
                               !.pc = "done", !.res = "STATUS_OK",
                               !.cfg.fPeakThresh = DbToGain(ParseFloat(t).v)]
    /\ UNCHANGED NotCl

\* in.set_native(val) fails in one of the value parsers.
CmdParseNoMem ==
    /\ \/ cl.pc = "srate" /\ Given("--srate")
       \/ cl.pc = "range" /\ Given("--dynamic-range")
       \/ cl.pc = "knee" /\ Given("--knee")
       \/ cl.pc = "passes" /\ Given("--num-passes")
       \/ cl.pc = "reactivity" /\ Given("--reactivity")
       \/ cl.pc = "weighting" /\ Given("--weighting")
       \/ cl.pc = "normalize" /\ Given("--normalize")
       \/ cl.pc = "normgain" /\ Given("--norm-gain")
       \/ cl.pc = "peaks" /\ Given("--eliminate-peaks")
    /\ cl' = CmdFail("STATUS_NO_MEM")
    /\ UNCHANGED NotCl

\* The command lines of the model: the two files and one more option
\* with any value, or two more options out of a short list.
FilesGiven == <<"spike-bender", "-if", "in.wav", "--out-file", "out.wav">>

KeyPairs ==
    { <<"-dr", "8">>, <<"-dr", "0">>, <<"--dynamic-range", "-1">>,
      <<"-k", "-1">>, <<"--knee", "1">>, <<"-np", "0">>, <<"-np", "8">>,
      <<"-wf", "c">>, <<"--weighting", "K">>, <<"-n", "ALWAYS">>,
      <<"-ng", "-1">>, <<"-ep", "1">>, <<"-ep", "-1">>, <<"-sr", "8">>,
      <<"-r", "0.5">> }

AnyPairs ==
    { <<o, v>> : o \in ShortNames \cup LongNames,
                 v \in NumberTexts \cup WordTexts }

CommandLines ==
    { FilesGiven \o p : p \in AnyPairs }
    \cup { FilesGiven \o p \o q : p \in KeyPairs, q \in KeyPairs }
    \cup { <<"spike-bender">>, <<"spike-bender", "--help">>,
           <<"spike-bender", "-if", "in.wav">>,
           <<"spike-bender", "-of", "out.wav", "-k">>,
           <<"spike-bender", "in.wav">>,
           FilesGiven \o <<"--bogus", "1">> }

\* What the fields that the constructor leaves unset may hold.
UnsetModes == {"NORM_NONE", "NORM_ALWAYS"}

UnsetGains == {FZero, FromInt(2)}

InitCmd ==
    /\ \E argv \in CommandLines, mode \in UnsetModes :
          \E thresh \in UnsetGains :
              cl = CmdEntry(argv, Config(mode, FZero, thresh))
    /\ IdleNotCl

NextCmd ==
    \/ CmdArg
    \/ CmdArgNoMem
    \/ CmdFiles
    \/ CmdSrate
    \/ CmdRange
    \/ CmdKnee
    \/ CmdPasses
    \/ CmdReactivity
    \/ CmdWeighting
    \/ CmdNormalize
    \/ CmdNormGain
    \/ CmdPeaks
    \/ CmdParseNoMem

SpecCmd == InitCmd /\ [][NextCmd]_vars

(***************************************************************************)
(* spike_bender::main (tool.cpp 34-129).  The routines it calls run as     *)
(* the machines above: main hands the arguments over, the routine runs to  *)
(* its end, main takes the destination and the status back.  The Samples   *)
(* of main hold floats; estimate_rms and smash_amplitude take the same     *)
(* values as integers.  parse_cmdline has returned drv.parsed and filled   *)
(* cfg; the file holds drv.file at the sample rate drv.rate.  drv.calls    *)
(* lists the routines called so far; drv.read, drv.last, drv.passes,       *)
(* drv.ref and drv.lrms record what the passes read and produced and what  *)
(* the reference levels were computed from.  rms holds at least one        *)
(* sample per channel here, so that rms_avg, which is allocated by the     *)
(* length of rms and indexed by its channels, is never left; operator new  *)
(* does not return NULL, so that the test of line 62 never holds.          *)
(***************************************************************************)
MaxPasses == 2

\* The Sample as integers.
AsInts(smp) ==
    [c \in 1..Len(smp) |-> [k \in 1..Len(smp[c]) |-> ToInt(smp[c][k])]]

\* dspu::millis_to_samples(sr, ms): ms * 0.001f * sr, exact on the values
\* here; size_t(...) drops the fraction.
MillisToSamples(sr, ms) == (sr * ms) \div 1000

\* size_t(...) | 1
OrOne(n) == IF n % 2 = 0 THEN n + 1 ELSE n

\* A removal of the head that takes the padding and one sample more.
CutRmsWhole(rms, period) ==
    [c \in 1..Len(rms) |-> SubSeq(rms[c], period + 2, Len(rms[c]))]

\* rms.remove(0, period / 2)
CutRms(rms, period) ==
    [c \in 1..Len(rms) |-> SubSeq(rms[c], (period \div 2) + 1, Len(rms[c]))]

\* A pass that always reads the input.
PassSourceInput(i, in, out) == in

\* const dspu::Sample *src = (i > 0) ? &out : &in
PassSource(i, in, out) == IF i > 0 THEN out ELSE in

\* A test that lets the threshold 1.0 through.
SmashEnabledAtUnit(thresh) == FLe(FromInt(1), thresh)

\* cfg.fPeakThresh > 1.0f
SmashEnabled(thresh) == FLt(FromInt(1), thresh)

\* dsp::abs_max over buf[lo..hi], by halves: the largest magnitude.
RECURSIVE AbsMaxOf(_, _, _)
AbsMaxOf(buf, lo, hi) ==
    IF lo > hi THEN FZero
    ELSE IF lo = hi THEN FAbs(buf[lo])
    ELSE LET mid == (lo + hi) \div 2
         IN  FMax(AbsMaxOf(buf, lo, mid), AbsMaxOf(buf, mid + 1, hi))

\* rms_avg[i] = dsp::abs_max(rms.channel(i), rms.length())
RmsAvg(rms) == [c \in 1..Len(rms) |-> AbsMaxOf(rms[c], 1, Len(rms[c]))]

\* The state of main once parse_cmdline has returned.
MainEntry(parsed, cfg, ep, file, rate) ==
    [ pc      |-> "parse",
      parsed  |-> parsed,
      cfg     |-> cfg,
      ep      |-> ep,
      file    |-> file,
      rate    |-> rate,
      in      |-> <<>>,
      rms     |-> <<>>,
      out     |-> <<>>,
      rms_avg |-> <<>>,
      period  |-> 0,
      i       |-> 0,
      res     |-> "STATUS_OK",
      calls   |-> <<>>,
      passes  |-> <<>>,
      read    |-> <<>>,
      last    |-> <<>>,
      ref     |-> <<>>,
      lrms    |-> <<>>,
      saved   |-> <<>> ]

\* return res, with the routine just called on record.
MainFail(res) == [drv EXCEPT !.pc = "returned", !.res = res]

\* Lines 40-42: a failure of parse_cmdline prints the usage, whose status
\* is STATUS_BAD_ARGUMENTS; STATUS_SKIP (--help) ends with STATUS_OK.
MainParsed ==
    /\ drv.pc = "parse"
    /\ drv' = IF drv.parsed = "STATUS_OK" THEN [drv EXCEPT !.pc = "load"]
              ELSE IF drv.parsed = "STATUS_SKIP"
                   THEN [drv EXCEPT !.pc = "returned", !.res = "STATUS_OK"]
                   ELSE [drv EXCEPT !.pc = "returned",
                                    !.res = "STATUS_BAD_ARGUMENTS"]
    /\ UNCHANGED NotDrv

\* The statuses of a load or a save that fails.
FileErrors == {"STATUS_IO_ERROR", "STATUS_NO_MEM"}

\* Lines 45-51: load_audio_file gives the file, resampled to
\* cfg.nSampleRate when that is positive; a rate that is not positive
\* becomes the rate of the file.
MainLoad ==
    /\ drv.pc = "load"
    /\ drv' = [drv EXCEPT
          !.pc    = "long_rms",
          !.calls = Append(@, "load_audio_file"),
          !.in    = AsFloats(drv.file),
          !.rate  = IF drv.cfg.nSampleRate > 0
                    THEN drv.cfg.nSampleRate ELSE @,
          !.cfg.nSampleRate = IF @ <= 0 THEN drv.rate ELSE @]
    /\ UNCHANGED NotDrv

\* Lines 45-49: load_audio_file fails.
MainLoadFailed ==
    /\ drv.pc = "load"
    /\ \E res \in FileErrors :
          drv' = [MainFail(res) EXCEPT !.calls = Append(@, "load_audio_file")]
    /\ UNCHANGED NotDrv

\* Lines 54-55: the call of estimate_rms over 400 ms of the input.
MainLongRms ==
    /\ drv.pc = "long_rms"
    /\ est = Idle
    /\ LET period == OrOne(MillisToSamples(drv.cfg.nSampleRate, 400))
       IN  /\ drv' = [drv EXCEPT !.pc = "long_rms_called",
                                 !.period = period,
                                 !.calls = Append(@, "estimate_rms")]
           /\ est' = EstEntry("rms", TRUE, AsInts(drv.in), period, drv.rms)
    /\ UNCHANGED <<fp, med, nrm, bin, sm, sp, cl, env>>

\* Lines 55-59: estimate_rms has failed.
MainLongRmsFailed ==
    /\ drv.pc = "long_rms_called"
    /\ est.pc = "failed"
    /\ drv' = MainFail("STATUS_NO_MEM")
    /\ UNCHANGED NotDrv

\* Lines 61-69: the reference level of each channel.
MainReference ==
    /\ drv.pc = "long_rms_called"
    /\ est.pc = "done"
    /\ \E rms_avg \in {RmsAvg(est.dst)} :
          drv' = [drv EXCEPT
             !.pc      = "pass",
             !.rms     = est.dst,
             !.rms_avg = rms_avg,
             !.ref     = Append(@, rms_avg),
             !.lrms    = [src |-> est.src, period |-> est.period,
                          rms |-> est.dst],
             !.i       = 0]
    /\ est' = Idle
    /\ UNCHANGED <<fp, med, nrm, bin, sm, sp, cl, env>>

\* Lines 72-80: the head of a pass and its call of estimate_rms.
MainPass ==
    /\ drv.pc = "pass"
    /\ drv.i < drv.cfg.nPasses
    /\ LET src    == PassSource(drv.i, drv.in, drv.out)
           period == OrOne(MillisToSamples(drv.cfg.nSampleRate,
                                           ToInt(drv.cfg.fReactivity)))
       IN  /\ drv' = [drv EXCEPT !.pc = "short_rms_called",
                                 !.period = period,
                                 !.read   = src,
                                 !.passes = Append(@, drv.i + 1),
                                 !.calls  = Append(@, "estimate_rms")]
           /\ est' = EstEntry("rms", TRUE, AsInts(src), period, drv.rms)
    /\ UNCHANGED <<fp, med, nrm, bin, sm, sp, cl, env>>

\* Lines 80-85: estimate_rms has failed.
MainShortRmsFailed ==
    /\ drv.pc = "short_rms_called"
    /\ est.pc = "failed"
    /\ drv' = MainFail("STATUS_NO_MEM")
    /\ UNCHANGED NotDrv

\* A cut that keeps the head of the envelope and drops the rest.
MainCutKeepsHead ==
    /\ drv.pc = "short_rms_called"
    /\ est.pc = "done"
    /\ LET head == [c \in 1..Len(est.dst) |->
                       SubSeq(est.dst[c], 1, drv.period \div 2)]
       IN  /\ drv' = [drv EXCEPT
                  !.pc    = "adjust_gain_called",
                  !.rms   = head,
                  !.calls = @ \o <<"remove", "adjust_gain">>]
           /\ bin' = BinEntry("adjust_gain", drv.read, head, 0,
                              Target(drv.out), NULL)
    /\ est' = Idle
    /\ UNCHANGED <<fp, med, nrm, sm, sp, cl, env>>

\* Lines 86-93: rms.remove, which fails for a range outside the Sample,
\* and the call of adjust_gain.
MainCut ==
    /\ drv.pc = "short_rms_called"
    /\ est.pc = "done"
    /\ IF \E c \in 1..Len(est.dst) : drv.period \div 2 > Len(est.dst[c])
       THEN /\ drv' = [MainFail("STATUS_BAD_ARGUMENTS") EXCEPT
                         !.rms = est.dst, !.calls = Append(@, "remove")]
            /\ UNCHANGED bin
       ELSE /\ drv' = [drv EXCEPT
                  !.pc    = "adjust_gain_called",
                  !.rms   = CutRms(est.dst, drv.period),
                  !.calls = @ \o <<"remove", "adjust_gain">>]
            /\ bin' = BinEntry("adjust_gain", drv.read,
                               CutRms(est.dst, drv.period), 0,
                               Target(drv.out), NULL)
    /\ est' = Idle
    /\ UNCHANGED <<fp, med, nrm, sm, sp, cl, env>>

\* Lines 93-97: adjust_gain has failed.
MainAdjustFailedGoesOn ==
    /\ drv.pc = "adjust_gain_called"
    /\ bin.pc = "failed"
    /\ drv' = [drv EXCEPT !.pc = "pass", !.res = bin.res, !.i = @ + 1]
    /\ UNCHANGED NotDrv

\* Lines 93-97: adjust_gain has failed.
MainAdjustFailed ==
    /\ drv.pc = "adjust_gain_called"
    /\ bin.pc = "failed"
    /\ drv' = MainFail(bin.res)
    /\ UNCHANGED NotDrv

\* Lines 93-98: adjust_gain has filled out; ++i.
MainAdjusted ==
    /\ drv.pc = "adjust_gain_called"
    /\ bin.pc = "done"
    /\ drv' = [drv EXCEPT !.pc = "pass", !.out = bin.dst, !.last = bin.dst,
                          !.i = @ + 1]
    /\ bin' = Idle
    /\ UNCHANGED <<fp, med, est, nrm, sm, sp, cl, env>>

\* Lines 101-103: the call of smash_amplitude, from out to out.
MainSmash ==
    /\ drv.pc = "pass"
    /\ drv.i >= drv.cfg.nPasses
    /\ SmashEnabled(drv.cfg.fPeakThresh)
    /\ drv' = [drv EXCEPT !.pc = "smash_amplitude_called",
                          !.calls = Append(@, "smash_amplitude")]
    /\ sm' = SmashEntry(AsInts(drv.out), drv.cfg.fPeakThresh,
                        drv.rate \div 100, drv.out)
    /\ UNCHANGED <<fp, med, est, nrm, bin, sp, cl, env>>

\* Line 101: the threshold is not above 1.
MainNoSmash ==
    /\ drv.pc = "pass"
    /\ drv.i >= drv.cfg.nPasses
    /\ ~SmashEnabled(drv.cfg.fPeakThresh)
    /\ drv' = [drv EXCEPT !.pc = "write"]
    /\ UNCHANGED NotDrv

\* Lines 103-107: smash_amplitude has failed.
MainSmashFailed ==
    /\ drv.pc = "smash_amplitude_called"
    /\ sm.pc = "failed"
    /\ drv' = MainFail("STATUS_NO_MEM")
    /\ UNCHANGED NotDrv

\* Line 103: smash_amplitude has rewritten out.
MainSmashed ==
    /\ drv.pc = "smash_amplitude_called"
    /\ sm.pc = "done"
    /\ drv' = [drv EXCEPT !.pc = "write", !.out = sm.dst]
    /\ sm' = Idle
    /\ UNCHANGED <<fp, med, est, nrm, bin, sp, cl, env>>

\* Lines 111-115: the call of normalize.
MainNormalize ==
    /\ drv.pc = "write"
    /\ drv.cfg.sOutFile # ""
    /\ drv' = [drv EXCEPT !.pc = "normalize_called",
                          !.calls = Append(@, "normalize")]
    /\ nrm' = NormEntry(drv.out, DbToGain(drv.cfg.fNormGain),
                        drv.cfg.enNormalize)
    /\ UNCHANGED <<fp, med, est, bin, sm, sp, cl, env>>

\* Lines 111 and 128: no output file, return STATUS_OK.
MainNoOutput ==
    /\ drv.pc = "write"
    /\ drv.cfg.sOutFile = ""
    /\ drv' = [drv EXCEPT !.pc = "returned", !.res = "STATUS_OK"]
    /\ UNCHANGED NotDrv

\* Lines 115-128: normalize has returned STATUS_OK, as it always does;
\* save_audio_file writes out.
MainSave ==
    /\ drv.pc = "normalize_called"
    /\ nrm.pc = "done"
    /\ drv' = [drv EXCEPT !.pc = "returned", !.res = "STATUS_OK",
                          !.out = nrm.dst,
                          !.calls = Append(@, "save_audio_file"),
                          !.saved = Append(@, nrm.dst)]
    /\ nrm' = Idle
    /\ UNCHANGED <<fp, med, est, bin, sm, sp, cl, env>>

\* Lines 121-125: save_audio_file fails.
MainSaveFailed ==
    /\ drv.pc = "normalize_called"
    /\ nrm.pc = "done"
    /\ \E res \in FileErrors :
          drv' = [MainFail(res) EXCEPT
                     !.out = nrm.dst,
                     !.calls = Append(@, "save_audio_file")]
    /\ nrm' = Idle
    /\ UNCHANGED <<fp, med, est, bin, sm, sp, cl, env>>

\* What the input file holds.
MainFiles ==
    { <<<<0, 0>>>>, <<<<0>>, <<0>>>>, <<<<21, 1>>>>, <<<<1>>, <<-1>>>> }

\* The sample rate of the file and the values of --srate.
MainRates == {100}

MainSrates == {-1, 200}

\* The values of --eliminate-peaks, in dB: -1, 0, 2^-30 and 1.
PeakDbs == {FromInt(-1), FZero, FNum(1, M23, -53), FromInt(1)}

\* The option as given, or cfg.fPeakThresh as the constructor left it.
PeakOptions ==
    { [given |-> TRUE, db |-> db, thresh |-> DbToGain(db)] : db \in PeakDbs }
      \cup { [given |-> FALSE, db |-> FZero, thresh |-> g] : g \in UnsetGains }

\* What parse_cmdline returns.
ParseResults ==
    {"STATUS_OK", "STATUS_SKIP", "STATUS_BAD_ARGUMENTS", "STATUS_NO_MEM"}

MainConfig(srate, passes, ep, outfile, mode) ==
    [Config(mode, FZero, ep.thresh) EXCEPT
        !.nSampleRate = srate,
        !.sInFile     = "in.wav",
        !.sOutFile    = outfile,
        !.nPasses     = passes]

InitMain ==
    /\ \E parsed \in ParseResults, file \in MainFiles, rate \in MainRates :
          \E srate \in MainSrates, passes \in 1..MaxPasses :
              \E ep \in PeakOptions, outfile \in {"", "out.wav"} :
                  \E mode \in {"NORM_NONE", "NORM_ABOVE", "NORM_ALWAYS"} :
                      /\ parsed = "STATUS_OK"
                           \/ (srate = -1 /\ passes = 1 /\ outfile = ""
                                 /\ mode = "NORM_NONE" /\ ~ep.given)
                      /\ outfile # "" \/ mode = "NORM_NONE"
                      /\ drv = MainEntry(parsed,
                                  MainConfig(srate, passes, ep, outfile, mode),
                                  ep, file, rate)
    /\ IdleNotDrv

NextMain ==
    \/ MainParsed
    \/ MainLoad
    \/ MainLoadFailed
    \/ MainLongRms
    \/ MainLongRmsFailed
    \/ MainReference
    \/ MainPass
    \/ MainShortRmsFailed
    \/ MainCut
    \/ MainAdjustFailed
    \/ MainAdjusted
    \/ MainSmash
    \/ MainNoSmash
    \/ MainSmashFailed
    \/ MainSmashed
    \/ MainNormalize
    \/ MainNoOutput
    \/ MainSave
    \/ MainSaveFailed
    \/ EstAlloc
    \/ EstNoMem
    \/ EstChannel
    \/ EstRmsStep
    \/ EstNextChannel
    \/ EstReturn
    \/ BinNoMem
    \/ BinAlloc
    \/ BinAdjustGain
    \/ BinReturn
    \/ SmashCopy
    \/ SmashChannel
    \/ SmashScan
    \/ SmashMedian
    \/ SmashWalk
    \/ SmashNextChannel
    \/ SmashNoMem
    \/ SmashReturn
    \/ NormNone
    \/ NormBegin
    \/ NormPeak
    \/ NormSilent
    \/ NormKeep
    \/ NormGain
    \/ NormScale
    \/ NormReturn

SpecMain == InitMain /\ [][NextMain]_vars

(***************************************************************************)
(* Claims about smash_amplitude.                                           *)
(***************************************************************************)

\* The sample p (a C index) of the channel x is a true local extremum: a
\* positive sample not below its left neighbour and above its right one,
\* or a negative sample not above its left neighbour and below its right
\* one, the neighbours beyond the ends of the channel being 0.
Neighbour(x, k) == IF k >= 0 /\ k < Len(x) THEN x[k + 1] ELSE 0

TrueMaximum(x, p) ==
    x[p + 1] > 0 /\ x[p + 1] >= Neighbour(x, p - 1)
                 /\ x[p + 1] > Neighbour(x, p + 1)

TrueMinimum(x, p) ==
    x[p + 1] < 0 /\ x[p + 1] <= Neighbour(x, p - 1)
                 /\ x[p + 1] < Neighbour(x, p + 1)

\* The typical level of the polarity of the value v.
TypicalLevel(st, v) == IF v > 0 THEN st.p_avg ELSE st.n_avg

\* |v| > threshold * |median of the polarity of v|
Exceeds(st, v) ==
    FLt(FMul(st.threshold, FAbs(TypicalLevel(st, v))), FAbs(FromInt(v)))

\* Pass 3 of the channel sm.i is complete.
Walked(st) == st.pc = "walk" /\ st.j = Len(st.peaks)

\* C12: for every true local extremum at index p whose magnitude exceeds
\* threshold x |median of its polarity|, the output sample at p equals
\* threshold x median of that polarity.
C12_PeakAtTarget ==
    Walked(sm) =>
        LET x == sm.src[sm.i + 1]
        IN  \A p \in 0..(sm.m - 1) :
               ( /\ TrueMaximum(x, p) \/ TrueMinimum(x, p)
                 /\ Exceeds(sm, x[p + 1]) )
                   => sm.out[sm.i + 1][p + 1] =
                         FMul(TypicalLevel(sm, x[p + 1]), sm.threshold)

\* A multiplier has just been applied: v to the sample sp.k - 1 of the span
\* that runs from the gain a at sp.idx to the gain b at the control point.
Applied == sp.pc = "sample" /\ sp.mul # <<>>

SpanA == sp.gain

SpanB == sp.points[sp.j + 1].egain

\* a + (b - a) * t^2 * (3 - 2t) for t = q / n, in single precision.
Smoothstep(a, b, q, n) ==
    LET t == FMul(FromInt(q), FDiv(FromInt(1), FromInt(n)))
    IN  FAdd(a, FMul(FMul(FMul(FSub(b, a), t), t),
                     FSub(FromInt(3), FMul(FromInt(2), t))))

\* v is in the closed interval between a and b widened by tol.
Between(a, b, v, tol) ==
    /\ FLe(FSub(IF FLe(a, b) THEN a ELSE b, tol), v)
    /\ FLe(v, FAdd(IF FLe(a, b) THEN b ELSE a, tol))

\* From u to v the multiplier does not move away from b by more than tol.
Toward(a, b, u, v, tol) ==
    /\ FLe(a, b) => FLe(FSub(u, tol), v)
    /\ FLe(b, a) => FLe(v, FAdd(u, tol))

\* 2^-20
Tolerance == FNum(1, M23, -43)

SpanShape(tol) ==
    Applied =>
        LET v == sp.mul[1]
            q == sp.k - 1 - sp.idx
            n == sp.points[sp.j + 1].index - sp.idx
        IN  /\ v = Smoothstep(SpanA, SpanB, q, n)
            /\ Between(SpanA, SpanB, v, tol)
            /\ sp.prev # <<>> => Toward(SpanA, SpanB, sp.prev[1], v, tol)
            /\ q = 0 => v = SpanA

\* C13 (as stated): the multiplier applied to the sample k of the span from
\* a at i to b at j is a + (b-a)*t^2*(3-2t), t = (k-i)/(j-i); it lies in the
\* closed interval between a and b, moves monotonically from a toward b,
\* and is exactly the target of the control point at that point's index.
C13_NoOvershoot == SpanShape(FZero)

\* C13 (amended): the same with the interval and the monotonicity holding
\* up to 2^-20, the rounding of the single precision evaluation.
C13_NoOvershootWithinRounding == SpanShape(Tolerance)

\* A multiplier beyond its span's end gain has been applied, and a span
\* has started exactly at the gain of its control point.
C13_Witness ==
    /\ Applied
    /\ ~Between(SpanA, SpanB, sp.mul[1], FZero)
    /\ sp.j = 1

\* The C indices of the block b of the channel: step samples from b * step,
\* fewer in the last block.
BlockOf(st, b) ==
    {p \in 0..(st.m - 1) : p \div st.step = b}

Blocks(st) == {p \div st.step : p \in 0..(st.m - 1)}

\* p is the place of the largest true local maximum (minimum) of the block
\* S of the channel x.
DominantMaximum(x, S, p) ==
    /\ p \in S
    /\ TrueMaximum(x, p)
    /\ \A q \in S : TrueMaximum(x, q) => x[q + 1] <= x[p + 1]

DominantMinimum(x, S, p) ==
    /\ p \in S
    /\ TrueMinimum(x, p)
    /\ \A q \in S : TrueMinimum(x, q) => x[q + 1] >= x[p + 1]

\* The gains of a list of peaks, as a set.
Levels(list) == {list[n].gain : n \in 1..Len(list)}

\* C23: for every block of step samples of the channel, the final and the
\* only block included, the block's largest positive true local maximum
\* is in the list whose median is the positive typical level and its
\* largest negative true local minimum is in the list of the negative one.
C23_EveryBlockCounted ==
    sm.pc = "walk" =>
        LET x == sm.src[sm.i + 1]
        IN  \A b \in Blocks(sm) :
               \A p \in BlockOf(sm, b) :
                  /\ DominantMaximum(x, BlockOf(sm, b), p)
                        => x[p + 1] \in Levels(sm.p_peaks)
                  /\ DominantMinimum(x, BlockOf(sm, b), p)
                        => x[p + 1] \in Levels(sm.n_peaks)

\* C25: every read of the current, the previous and the next sample that
\* the scan of smash_amplitude makes at a position j in [0, N) uses an
\* index inside [0, N); the neighbour beyond an end is taken as 0.
C25_ScanReadsInside ==
    (sm.pc \in {"scan", "walk"} /\ sm.m >= 1) => ~sm.oob

\* The index of the control point that pass 3 walked last, 0 before the
\* first.
WalkedTo(st) == IF st.j = 0 THEN 0 ELSE st.peaks[st.j].index

\* Every sample of the channel c holds the source sample times the one
\* multiplier applied to it.
MultipliedOnce(st, c) ==
    \A k \in 1..st.m :
        /\ Len(st.applied[c][k]) = 1
        /\ st.out[c][k] = FMul(FromInt(st.src[c][k]), st.applied[c][k][1])

\* C26: the control points of pass 3 have strictly increasing indices and
\* end with the terminal point at N; the spans walked so far cover
\* [0, idx) once and nothing beyond, so after the walk every sample of the
\* channel has been multiplied by an interpolated multiplier exactly once.
C26_SpansPartition ==
    /\ sm.pc = "walk" =>
          /\ \A a, b \in 1..Len(sm.peaks) :
                a < b => sm.peaks[a].index < sm.peaks[b].index
          /\ sm.peaks[Len(sm.peaks)].index = sm.m
          /\ sm.idx = WalkedTo(sm)
          /\ \A k \in 1..sm.m :
                Len(sm.applied[sm.i + 1][k]) = (IF k - 1 < sm.idx THEN 1 ELSE 0)
          /\ Walked(sm) => MultipliedOnce(sm, sm.i + 1)
    /\ sm.pc = "done" =>
          \A c \in 1..Len(sm.src) : MultipliedOnce([sm EXCEPT !.out = sm.dst], c)

\* A channel of four samples with two peaks and the terminal point has
\* been walked and committed.
C26_Witness ==
    /\ sm.pc = "done"
    /\ sm.m = 4
    /\ Len(sm.peaks) = 3
    /\ sm.peaks[1].index > 0

\* 0 <= v <= 1
InUnit(v) == FLe(FZero, v) /\ FLe(v, FromInt(1))

\* The float v is neither larger in magnitude than the float u nor of the
\* opposite sign.
Shrunk(u, v) ==
    /\ ~MagLt(u, v)
    /\ IsZero(v) \/ v.s = u.s

\* The span of 11612 samples from the target 2.0f / 21.0f back to 1.0f,
\* and the span of 16403 samples from 1.0f / 3.0f down to the target 0 of
\* a polarity whose median is 0.
LongSpans ==
    { <<ControlPoint(0, FDiv(FromInt(2), FromInt(21))),
        ControlPoint(11612, FromInt(1))>>,
      <<ControlPoint(0, FDiv(FromInt(1), FromInt(3))),
        ControlPoint(16403, FZero)>> }

InitLongSpan ==
    /\ \E points \in LongSpans : sp = SpanEntry(points)
    /\ IdleNotSp

\* smash_amplitude on a small Sample, or pass 3 alone on a long span.
InitUnit == InitSmash \/ InitLongSpan

NextUnit == NextSmash \/ NextSpan

SpecUnit == InitUnit /\ [][NextUnit]_vars

\* The multiplier v is in [0, 1] widened by tol.
NearUnit(v, tol) == FLe(FNeg(tol), v) /\ FLe(v, FAdd(FromInt(1), tol))

\* For a threshold > 1 the positive median is >= 0 and the negative one
\* <= 0, the target multiplier of every control point is in [0, 1], every
\* multiplier applied is in [0, 1] widened by tol, and no sample grows in
\* magnitude by more than the factor 1 + tol.
UnitTargets(tol) ==
    /\ sm.pc = "walk" =>
          /\ FLe(FZero, sm.p_avg)
          /\ FLe(sm.n_avg, FZero)
          /\ \A n \in 1..Len(sm.peaks) : InUnit(TargetGain(sm, sm.peaks[n]))
          /\ InUnit(sm.gain)
          /\ \A k \in 1..sm.m :
                /\ \A n \in 1..Len(sm.applied[sm.i + 1][k]) :
                      NearUnit(sm.applied[sm.i + 1][k][n], tol)
                /\ ~MagLt(FMul(FromInt(sm.src[sm.i + 1][k]),
                               FAdd(FromInt(1), tol)),
                          sm.out[sm.i + 1][k])
    /\ Applied => NearUnit(sp.mul[1], tol)

\* C27 (amended): the medians have the sign of their polarity and every
\* target multiplier is in [0, 1]; every multiplier applied is in [0, 1]
\* up to 2^-20, the rounding of the single precision interpolation, and
\* no sample grows in magnitude by more than the factor 1 + 2^-20.
C27_MultipliersNearUnit == UnitTargets(Tolerance)

\* C27 (as stated): for a threshold > 1 the positive median is >= 0 and the
\* negative one <= 0, the target multiplier of every control point is in
\* [0, 1], every multiplier applied is in [0, 1], and no output sample is
\* larger in magnitude than its input sample or of the opposite sign.
C27_MultipliersInUnit ==
    /\ UnitTargets(FZero)
    /\ sm.pc = "done" =>
          \A c \in 1..Len(sm.src) :
             \A k \in 1..sm.m :
                Shrunk(FromInt(sm.src[c][k]), sm.dst[c][k])

\* The last multiplier of the span of 16403 samples that falls from the
\* target 1/3 to 0 is below 0.
C27_Witness ==
    /\ Applied
    /\ sp.points[sp.j + 1].egain = FZero
    /\ InUnit(sp.gain)
    /\ FLt(sp.mul[1], FZero)

\* No true local extremum of the channel x exceeds threshold x |median of
\* its polarity|.
NoneExceeds(st, x) ==
    \A p \in 0..(st.m - 1) :
        (TrueMaximum(x, p) \/ TrueMinimum(x, p)) => ~Exceeds(st, x[p + 1])

\* C28: when no true local extremum of the channel exceeds threshold x
\* |median of its polarity|, every multiplier pass 3 applies, the span
\* ending at the terminal point included, is 1 and every sample of the
\* channel is unchanged.
C28_QuietChannelUnchanged ==
    (Walked(sm) /\ NoneExceeds(sm, sm.src[sm.i + 1])) =>
        \A k \in 1..sm.m :
            /\ sm.applied[sm.i + 1][k] = <<FromInt(1)>>
            /\ sm.out[sm.i + 1][k] = FromInt(sm.src[sm.i + 1][k])

(***************************************************************************)
(* Claims about calls with dst == src: calc_deviation(&x, &x, ...)         *)
(* (mtest/rms.cpp), apply_gain(&in, &in, &gain) (mtest/norming.cpp 74),    *)
(* adjust_gain(&out, NULL, &out, ...) and smash_amplitude(&out, &out, ...) *)
(* (tool.cpp 72-108), next to the same calls with a distinct dst.          *)
(***************************************************************************)
AliasKinds == {"calc_deviation", "apply_gain", "adjust_gain"}

InitAlias ==
    \/ /\ \E kind \in AliasKinds, src \in BinSamples, arg \in BinSamples :
             \E offset \in BinOffsets, same \in BOOLEAN :
                 /\ kind = "calc_deviation" \/ offset = 0
                 /\ bin = IF same
                          THEN BinEntryInPlace(kind, src, arg, offset)
                          ELSE BinEntry(kind, src, arg, offset,
                                        Target(StaleSample), NULL)
       /\ IdleNotBin
    \/ /\ \E src \in SmashSamples, threshold \in SmashThresholds :
             \E step \in SmashSteps, same \in BOOLEAN :
                 sm = IF same
                      THEN SmashEntryInPlace(src, threshold, step)
                      ELSE SmashEntry(src, threshold, step, StaleSample)
       /\ IdleNotSm

NextAlias ==
    \/ BinMismatch
    \/ BinNoMem
    \/ BinAlloc
    \/ BinDeviation
    \/ BinApplyGain
    \/ BinAdjustGain
    \/ BinReturn
    \/ SmashCopy
    \/ SmashChannel
    \/ SmashScan
    \/ SmashMedian
    \/ SmashWalk
    \/ SmashNextChannel
    \/ SmashNoMem
    \/ SmashReturn

SpecAlias == InitAlias /\ [][NextAlias]_vars

\* The channel c of the private Sample is what the routine computes from
\* the channel c of the source as it was passed.
BinResult(st, c) ==
    CASE st.kind = "apply_gain" ->
            st.out[c] = Mul3(st.src[c], st.arg[c], st.count)
      [] st.kind = "adjust_gain" ->
            st.out[c] = Mul3(st.g[c], st.src[c], st.count)
      [] st.kind = "calc_deviation" ->
            \E g \in BinValues :
                st.out[c] = Deviation(st.src[c], st.arg[c], st.offset, g)

\* A step of one of the routines before its return writes neither the
\* source nor the destination; the return hands the private Sample, built
\* from the source as it was passed, to the destination (which is the
\* source too when dst == src).
AliasStep ==
    /\ (bin.pc \in {"entry", "channel"} /\ bin'.pc # "done") =>
          bin'.src = bin.src /\ bin'.dst = bin.dst
    /\ (bin.pc = "channel" /\ bin'.pc = "done") =>
          /\ bin'.dst = bin.out
          /\ bin'.src = (IF bin.same THEN bin'.dst ELSE bin.src)
          /\ \A c \in 1..Len(bin.src) : BinResult(bin, c)
    /\ (sm.pc \notin {"idle", "done", "failed"} /\ sm'.pc # "done") =>
          sm'.src = sm.src /\ sm'.dst = sm.dst
    /\ (sm.pc = "channel" /\ sm'.pc = "done") =>
          /\ sm'.dst = sm.out
          /\ sm'.src = (IF sm.same THEN sm'.dst ELSE sm.src)
          /\ \A c \in 1..Len(sm.src) :
                \A k \in 1..sm.m :
                   /\ Len(sm.applied[c][k]) = 1
                   /\ sm.out[c][k] =
                         FMul(FromInt(sm.src[c][k]), sm.applied[c][k][1])

\* C29: calc_deviation, apply_gain (Sample form), adjust_gain and
\* smash_amplitude called with dst == src build the result in a private
\* Sample from the unmodified source, exactly as with a distinct dst, and
\* write the source only by the final swap.
C29_InPlaceAsDistinct == [][AliasStep]_vars

\* calc_deviation has returned into its own source, which now holds a
\* result that differs from what was passed.
C29_Witness ==
    /\ bin.pc = "done"
    /\ bin.same
    /\ bin.kind = "calc_deviation"
    /\ bin.src = bin.dst
    /\ bin.src # bin.out

(***************************************************************************)
(* Claims about approximate_envelope.                                      *)
(***************************************************************************)
\* The indices of the track that hold a recorded point.
Recorded(track) == {k \in 1..Len(track) : track[k] # FZero}

\* The last recorded point of a track that has one.
LastRecorded(track) ==
    CHOOSE p \in Recorded(track) : \A q \in Recorded(track) : q <= p

\* The smoothed track holds the last known value of the track of points
\* from the last recorded point to the end; it is constant when there is
\* no recorded point.
HeldToEnd(track, smooth) ==
    IF Recorded(track) = {}
    THEN \A k \in 1..Len(smooth) : smooth[k] = smooth[1]
    ELSE \A k \in LastRecorded(track)..Len(smooth) :
            smooth[k] = track[LastRecorded(track)]

\* C24: in the smoothed tracks of estimate_envelope every position from
\* the last recorded point p of the track to the end equals src[p], and
\* a track with no recorded point gives a constant output.
C24_TrailingGapHeld ==
    env.pc = "done" =>
        \A c \in 0..(Len(env.src) - 1) :
            /\ HeldToEnd(env.dst[6 * c + 1], env.dst[6 * c + 3])
            /\ HeldToEnd(env.dst[6 * c + 2], env.dst[6 * c + 4])

(***************************************************************************)
(* Claims about parse_cmdline.                                             *)
(***************************************************************************)

\* The documented values of --weighting and the function of each.
DocumentedWeighting ==
    [name \in {"none", "a", "b", "c", "d", "k"} |->
        CASE name = "none" -> "NO_WEIGHT"
          [] name = "a"    -> "A_WEIGHT"
          [] name = "b"    -> "B_WEIGHT"
          [] name = "c"    -> "C_WEIGHT"
          [] name = "d"    -> "D_WEIGHT"
          [] OTHER         -> "K_WEIGHT"]

\* The texts that equal the name when the case of the letters is ignored.
Spellings(name) ==
    CASE name = "none" -> {"none", "None"}
      [] name = "a"    -> {"a", "A"}
      [] name = "c"    -> {"c", "C"}
      [] name = "k"    -> {"k", "K"}
      [] OTHER         -> {name}

\* parse_cmdline has gone through the stage (it returned there or later).
Past(stage) ==
    \/ cl.pc = "done"
    \/ cl.pc = "returned" /\ cl.at = stage

\* C16: a --weighting value is accepted exactly when it is one of none, a,
\* b, c, d, k in any case, and cfg gets that value's own weighting function.
C16_WeightingValues ==
    (Past("weighting") /\ Given("--weighting")) =>
        LET val == cl.options["--weighting"]
        IN  IF \E name \in DOMAIN DocumentedWeighting : val \in Spellings(name)
            THEN /\ cl.pc = "done" \/ cl.res = "STATUS_NO_MEM"
                 /\ cl.pc = "done" =>
                       \E name \in DOMAIN DocumentedWeighting :
                          /\ val \in Spellings(name)
                          /\ cl.cfg.enWeighting = DocumentedWeighting[name]
            ELSE cl.pc = "returned" /\ cl.res # "STATUS_OK"

\* The text of a negative number.
NegativeTexts == {"-1"}

\* C17: with a negative --knee, parse_cmdline returns STATUS_BAD_ARGUMENTS
\* from the knee stage, whatever the other options are.
C17_NegativeKneeRejected ==
    (Past("knee") /\ Given("--knee")
        /\ cl.options["--knee"] \in NegativeTexts)
      => /\ cl.pc = "returned"
         /\ cl.at = "knee"
         /\ cl.res \in {"STATUS_BAD_ARGUMENTS", "STATUS_NO_MEM"}

(***************************************************************************)
(* Claims about main.                                                      *)
(***************************************************************************)

\* Every sample of the file is zero.
Silent(file) == \A c \in 1..Len(file) : \A k \in 1..Len(file[c]) : file[c][k] = 0

\* The number of passes that have produced their output.
PassesDone == drv.i

\* C14: with an all-zero input, the output of every pass of estimate_rms,
\* rms.remove and adjust_gain is all zeros and as long as the input,
\* whatever finite gains the curve gives.
C14_SilenceStaysSilent ==
    (drv.pc # "idle" /\ Silent(drv.file) /\ PassesDone >= 1) =>
        /\ Len(drv.last) = Len(drv.file)
        /\ \A c \in 1..Len(drv.file) :
              /\ Len(drv.last[c]) = Len(drv.file[c])
              /\ \A k \in 1..Len(drv.last[c]) : IsZero(drv.last[c][k])

\* The second pass over a silent file has been given the gain 3.
C14_Witness ==
    /\ drv.pc = "adjust_gain_called"
    /\ Silent(drv.file)
    /\ PassesDone = 1
    /\ bin.pc = "done"
    /\ bin.g[1][1] = FromInt(3)

\* v is the largest magnitude of the channel.
IsPeakLevel(v, ch) ==
    /\ \A k \in 1..Len(ch) : FLe(FAbs(ch[k]), v)
    /\ \E k \in 1..Len(ch) : FAbs(ch[k]) = v

\* main is inside a pass.
InPass == drv.pc \in {"short_rms_called", "adjust_gain_called"}

\* C15: the reference levels are computed once, before the first pass,
\* from the 400 ms RMS of the input as loaded, and stay as computed (at
\* the head of every pass they are the peaks of that RMS); the passes run
\* in the order 1..nPasses, the first reads the input and each later one
\* the output of the pass before it.
C15_ReferenceOnceThenChain ==
    drv.pc # "idle" =>
        /\ Len(drv.ref) <= 1
        /\ Len(drv.passes) >= 1 => Len(drv.ref) = 1
        /\ Len(drv.ref) = 1 =>
              /\ drv.rms_avg = drv.ref[1]
              /\ drv.in = AsFloats(drv.file)
              /\ drv.lrms.src = drv.file
              /\ drv.lrms.period
                   = OrOne(MillisToSamples(drv.cfg.nSampleRate, 400))
              /\ Len(drv.ref[1]) = Len(drv.file)
              /\ drv.pc = "pass" =>
                    \A c \in 1..Len(drv.file) :
                       IsPeakLevel(drv.rms_avg[c], drv.lrms.rms[c])
        /\ drv.passes = [n \in 1..Len(drv.passes) |-> n]
        /\ Len(drv.passes) <= drv.cfg.nPasses
        /\ (drv.pc = "returned" /\ drv.res = "STATUS_OK"
              /\ drv.parsed = "STATUS_OK") =>
                 Len(drv.passes) = drv.cfg.nPasses
        /\ InPass =>
              /\ drv.read = (IF Len(drv.passes) = 1 THEN AsFloats(drv.file)
                             ELSE drv.last)
              /\ est.pc # "idle" => est.src = AsInts(drv.read)
              /\ bin.pc # "idle" => bin.src = drv.read

\* The second pass reads the output of the first, which differs from the
\* input.
C15_Witness ==
    /\ drv.pc = "adjust_gain_called"
    /\ Len(drv.passes) = 2
    /\ drv.read = drv.last
    /\ drv.last # drv.in
    /\ drv.rms_avg[1] # FZero

\* smash_amplitude has been called.
SmashCalled == \E n \in 1..Len(drv.calls) : drv.calls[n] = "smash_amplitude"

\* main is past the test of cfg.fPeakThresh.
Decided ==
    /\ drv.pc \notin {"idle", "pass"}
    /\ drv.i >= drv.cfg.nPasses

\* g > 1 for a finite float g.
AboveOne(g) ==
    /\ g.m # 0
    /\ g.s = 1
    /\ g.e > 1 - MANT_BITS \/ (g.e = 1 - MANT_BITS /\ g.m > M23)

\* Peak elimination has not run: what goes to normalize is the output of
\* the last pass.
Untouched ==
    /\ drv.pc = "write" => drv.out = drv.last
    /\ nrm.pc # "idle" => nrm.dst0 = drv.last

RECURSIVE PassCalls(_)
PassCalls(n) ==
    IF n = 0 THEN <<>>
    ELSE <<"estimate_rms", "remove", "adjust_gain">> \o PassCalls(n - 1)

\* The calls of a run in which nothing fails.
FullRun(cfg) ==
    <<"load_audio_file", "estimate_rms">>
      \o PassCalls(cfg.nPasses)
      \o (IF AboveOne(cfg.fPeakThresh) THEN <<"smash_amplitude">> ELSE <<>>)
      \o (IF cfg.sOutFile # "" THEN <<"normalize", "save_audio_file">>
          ELSE <<>>)

IsPrefix(s, t) == Len(s) <= Len(t) /\ s = SubSeq(t, 1, Len(s))

LastCall == drv.calls[Len(drv.calls)]

\* C19: main calls load, the 400 ms estimate_rms, the nPasses passes,
\* smash_amplitude when enabled, normalize and save in this order, save at
\* most once and after everything else has succeeded; a routine that
\* fails is the last one called and its status is what main returns.
C19_StagesInOrder ==
    drv.pc # "idle" =>
        /\ IsPrefix(drv.calls, FullRun(drv.cfg))
        /\ drv.res # "STATUS_OK" => drv.pc = "returned"
        /\ est.pc = "failed" => LastCall = "estimate_rms"
        /\ bin.pc = "failed" => LastCall = "adjust_gain"
        /\ sm.pc = "failed" => LastCall = "smash_amplitude"
        /\ (drv.pc = "returned" /\ drv.parsed = "STATUS_OK") =>
              IF drv.res = "STATUS_OK"
              THEN drv.calls = FullRun(drv.cfg)
              ELSE CASE LastCall = "estimate_rms" ->
                          est.pc = "failed" /\ drv.res = "STATUS_NO_MEM"
                     [] LastCall = "adjust_gain" ->
                          bin.pc = "failed" /\ drv.res = bin.res
                     [] LastCall = "smash_amplitude" ->
                          sm.pc = "failed" /\ drv.res = "STATUS_NO_MEM"
                     [] LastCall \in {"load_audio_file", "save_audio_file"} ->
                          drv.res \in FileErrors
                     [] OTHER -> FALSE
        /\ Len(drv.saved) <= 1
        /\ Len(drv.saved) = 1 =>
              /\ drv.calls = FullRun(drv.cfg)
              /\ drv.res = "STATUS_OK"
              /\ drv.pc = "returned"

\* A run of two passes with peak elimination has saved its output.
C19_Witness ==
    /\ drv.pc = "returned"
    /\ drv.res = "STATUS_OK"
    /\ drv.cfg.nPasses = 2
    /\ SmashCalled
    /\ Len(drv.saved) = 1

\* The two Samples have the same number of channels and of samples per
\* channel.
SameShape(a, b) ==
    /\ Len(a) = Len(b)
    /\ \A c \in 1..Len(a) : Len(a[c]) = Len(b[c])

\* The length of the envelope of n samples for the window w, after the
\* removal of its head.
TrimmedLength(n, w) == Len(CutRms(SampleInit(1, EstLength(n, w)), w)[1])

\* C30: in every pass the envelope handed to adjust_gain has N + W -
\* floor(W/2) samples, which is not less than the N samples of the source,
\* adjust_gain's count is N, and the output of the pass has the N samples
\* per channel and the C channels of the input.
C30_PassKeepsLength ==
    /\ (drv.pc = "adjust_gain_called" /\ bin.pc \in {"channel", "done"}) =>
          /\ drv.period % 2 = 1
          /\ \A c \in 1..Len(bin.arg) :
                /\ Len(bin.arg[c]) =
                      Len(drv.in[c]) + drv.period - drv.period \div 2
                /\ Len(bin.arg[c]) >= Len(bin.src[c])
          /\ SameShape(bin.src, drv.in)
          /\ bin.count = Len(drv.in[1])
          /\ SameShape(IF bin.pc = "done" THEN bin.dst ELSE bin.out, drv.in)
    /\ (drv.pc = "pass" /\ drv.i >= 1) =>
          /\ SameShape(drv.out, drv.in)
          /\ \A n \in 0..8 : \A w \in {1, 3, 5, 7, 9, 11} :
                Min2(TrimmedLength(n, w), n) = n

\* The second pass over two channels has delivered its output.
C30_Witness ==
    /\ drv.pc = "pass"
    /\ drv.i = 2
    /\ Len(drv.in) = 2
    /\ drv.period = 5
    /\ SameShape(drv.out, drv.in)

(***************************************************************************)
(* Every routine that returns a status, one call of one of them at a time. *)
(***************************************************************************)
MaxOpCount == 2

InitPeaksShort ==
    /\ \E buf \in SeqsOf(PeakSamples, 0, MaxOpCount) :
          \E rms \in [1..Len(buf) -> RmsValues] :
              \E threshold \in Thresholds :
                  fp = FindPeaksEntry(buf, rms, threshold, StaleRanges)
    /\ IdleNotFp

InitOps ==
    \/ InitPeaksShort
    \/ InitEst
    \/ InitEnv
    \/ InitBin
    \/ InitSmash

NextOps ==
    \/ NextPeaks
    \/ NextEst
    \/ NextEnv
    \/ NextBin
    \/ NextSmash

SpecOps == InitOps /\ [][NextOps]_vars

\* C11: when estimate_rms, estimate_average, estimate_partial_rms,
\* estimate_rms_balance, estimate_envelope, calc_deviation,
\* calc_gain_adjust, apply_gain, adjust_gain, find_peaks or smash_amplitude
\* returns a status other than STATUS_OK, the destination (dst, gain,
\* ranges) holds what it held before the call; Samples of different
\* channel counts always end in such a status.
C11_FailureKeepsDestination ==
    /\ fp.pc = "failed" => fp.ranges = StaleRanges
    /\ est.pc = "failed" => est.dst = StaleSample
    /\ env.pc = "failed" => env.dst = StaleSample
    /\ sm.pc = "failed" => sm.dst = StaleSample
    /\ bin.pc = "failed" =>
          /\ bin.res # "STATUS_OK"
          /\ bin.dst = StaleSample
          /\ bin.gain = (IF bin.gain_null THEN <<>> ELSE StaleSample)
    /\ (bin.pc \notin {"idle", "entry"} /\ Len(bin.src) # Len(bin.arg)) =>
          bin.pc = "failed" /\ bin.res = "STATUS_BAD_ARGUMENTS"

\* smash_amplitude has failed in its second channel, with the first one
\* already rewritten in its private copy.
C11_Witness ==
    /\ sm.pc = "failed"
    /\ sm.i = 1
    /\ sm.dst = StaleSample

=============================================================================
